---- MODULE Spec2Model ----
(***************************************************************************)
(* TrumpProof: the receipt ledger primitive (src/src/core.py) and the       *)
(* cross-domain correlator (src/src/loop/), as a state machine driven by    *)
(* a caller of their functions.                                             *)
(*                                                                          *)
(* Python values are tagged pairs <<tag, content>>; a dict is the sequence  *)
(* of its <<key, value>> pairs in insertion order.                          *)
(***************************************************************************)
EXTENDS Integers, Sequences, FiniteSets, TLC

VARIABLES sink, calls, clock, made, last, history, sim

vars == <<sink, calls, clock, made, last, history, sim>>

(* ------------------------------------------------------------------ *)
(* Bounds of the model                                                 *)
(* ------------------------------------------------------------------ *)
\* calls the driver makes before it stops
MaxCalls == 2
\* the last reading of the wall clock
MaxClock == 1
\* calls the driver makes when it repeats a call after others
MaxRepeatCalls == 3
\* the longest list handed to merkle
MaxItems == 6
\* the most entities two modules share
MaxEntities == 51
\* the most cycles a simulation runs
MaxCycles == 2
\* the longest list of receipts handed to sense, analyze and run_cycle
MaxReceipts == 3

\* the longest list of violations given to propose_remediation
MaxViolations == 6

\* the most exemption outcomes given to detect_favoritism
MaxOutcomes == 2

\* the most calls of a driver that feeds its receipts back
MaxFeedback == 4

\* the most calls of emit_receipt on payloads that may not serialise
MaxEmits == 2

\* the longest list merkle is given before its last item is repeated
MaxLeaves == 5

(* ------------------------------------------------------------------ *)
(* Python values                                                       *)
(* ------------------------------------------------------------------ *)
PyStr(s) == <<"str", s>>
PyInt(n) == <<"int", n>>
PyBool(b) == <<"bool", b>>
None == <<"null", "">>
\* a value the json module cannot serialise (a set, a datetime, bytes)
Obj == <<"obj", "">>
PyList(xs) == <<"list", xs>>
PyDict(d) == <<"dict", d>>
\* a string made of parts: hex digests <<alg, bytes>> and literals <<"lit", s>>
Sym(parts) == <<"sym", parts>>
\* the float k * log10(x), for integers k >= 0 and x >= 1
LogFloat(k, x) == <<"float", <<k, x>>>>

\* the float n / 10
Tenths(n) == <<"tenths", n>>

\* the int n * 1000000, for n >= 0: the dollar amounts of constants.py
Millions(n) == <<"millions", n>>

RECURSIVE Gcd(_, _)
Gcd(a, b) == IF b = 0 THEN a ELSE Gcd(b, a % b)

\* the float a / b, for a >= 0 and b > 0: in tenths when it is a whole
\* number of tenths, as the fraction in lowest terms otherwise
Quotient(a, b) ==
    IF (10 * a) % b = 0 THEN Tenths((10 * a) \div b)
    ELSE <<"ratio", <<a \div Gcd(a, b), b \div Gcd(a, b)>>>>

\* <<n, d>>: the number v is n / d
Fraction(v) ==
    CASE v[1] = "tenths" -> <<v[2], 10>>
      [] v[1] = "ratio" -> v[2]
      [] OTHER -> <<v[2], 1>>

\* a local variable: F of the value v, which F may name many times
With(v, F(_)) == CHOOSE y \in {F(x) : x \in {v}} : TRUE

\* the list xs, each element computed once
Built(xs) == SubSeq(xs, 1, Len(xs))

Truthy(v) ==
    CASE v[1] = "str" -> v[2] # ""
      [] v[1] = "int" -> v[2] # 0
      [] v[1] = "bool" -> v[2]
      [] v[1] = "float" -> v[2][1] # 0 /\ v[2][2] # 1
      [] v[1] = "tenths" -> v[2] # 0
      [] v[1] = "ratio" -> v[2][1] # 0
      [] v[1] = "millions" -> v[2] # 0
      [] v[1] = "null" -> FALSE
      [] v[1] = "list" -> v[2] # <<>>
      [] v[1] = "dict" -> v[2] # <<>>
      [] OTHER -> TRUE

Contains(sub, s) ==
    \E i \in 1..(Len(s) - Len(sub) + 1) : SubSeq(s, i, i + Len(sub) - 1) = sub

(* ------------------------------------------------------------------ *)
(* dict operations                                                     *)
(* ------------------------------------------------------------------ *)
Keys(d) == {d[i][1] : i \in DOMAIN d}

KeyList(d) == [i \in DOMAIN d |-> d[i][1]]

Has(d, k) == \E i \in DOMAIN d : d[i][1] = k

Get(d, k, dflt) ==
    IF Has(d, k) THEN d[CHOOSE i \in DOMAIN d : d[i][1] = k][2] ELSE dflt

\* d[k] = v: an existing key keeps its position, a new key goes last
Put(d, k, v) ==
    IF Has(d, k)
    THEN [i \in DOMAIN d |-> IF d[i][1] = k THEN <<k, v>> ELSE d[i]]
    ELSE Append(d, <<k, v>>)

RECURSIVE DictLiteral(_)
\* {k1: v1, ..., **data}: the pairs in order, a repeated key overwriting
DictLiteral(pairs) ==
    IF pairs = <<>> THEN <<>>
    ELSE With(DictLiteral(SubSeq(pairs, 1, Len(pairs) - 1)), LAMBDA d :
             Built(Put(d, pairs[Len(pairs)][1], pairs[Len(pairs)][2])))

Remove(d, ks) == SelectSeq(d, LAMBDA p : p[1] \notin ks)

(* ------------------------------------------------------------------ *)
(* json.dumps                                                          *)
(* ------------------------------------------------------------------ *)
\* every key of the model, in the order sorted() gives (code points)
KeyOrder ==
    << "#1", "#2", "a", "action", "action_required", "actual", "affinity_baseline_fees",
       "affinity_baseline_returns", "amount", "anomalies_detected", "approved_count",
       "aum_managed", "b", "baseline", "baseline_approval_rate", "baseline_rate",
       "birthplace", "blocked", "border", "by_domain", "by_module",
       "central_node_confirmed", "centrality_score", "cfius_exposure", "claim",
       "classification", "cleared", "confidence", "connected_entities", "connections",
       "contract_value", "count", "counterparty", "country", "cross_domain_verified",
       "cycle", "cycle_id", "cycle_time_ms", "deadliest_since", "deaths", "delta",
       "description", "detainee_days", "detainee_id", "deviation_score",
       "direct_investment", "direction", "disclosure_threshold", "domain_count", "domains",
       "entities", "entities_analyzed", "entity", "entity_country", "entity_id",
       "entity_name", "error", "evidence_description", "evidence_strength",
       "evidence_type", "exceeds_baseline", "exceeds_threshold", "excessive", "expected",
       "facility_id", "fara_violation", "favoritism_detected", "fee_amount",
       "fees_collected", "fees_paid", "flow_count", "flows", "fy2025_deaths_documented",
       "golf", "gulf", "harvest_period_days", "id", "is_emolument", "is_foreign",
       "is_government", "is_violation", "k", "license", "license_id",
       "lobbying_approval_rate", "loop", "match_type", "matches", "matches_found",
       "max_overlap", "messitte_standard", "metric", "military_service", "module",
       "module_count", "modules", "modules_active", "modules_analyzed", "most_central",
       "name", "net_flow", "occurrence_count", "overlapping_entities", "overlaps",
       "ownership_percentage", "parent_citizenship", "patterns", "patterns_detected",
       "payload_hash", "payment_amount", "payment_date", "payment_id", "payment_method",
       "period", "pif_investment", "pif_related_receipts", "priority",
       "priority_violations", "project_value", "proposals", "proposed_action",
       "rate_multiplier", "rate_per_10k_days", "ratio", "ratio_classification",
       "receipt_type", "receipts_analyzed", "receipts_processed", "recipient",
       "recipient_cleared", "recipient_matches", "recipient_name", "recurring_patterns",
       "relationship", "requires_review", "returns_generated", "revenue", "scores",
       "sdn_entries_checked", "sdn_id", "sdn_name", "sender", "sender_cleared",
       "sender_matches", "source_country", "source_entity", "source_name", "strength",
       "target_cycle_seconds", "tariff", "tenant_id", "threshold",
       "total_direct_investment", "total_entities", "total_exposure", "total_inflow",
       "total_outcomes", "total_outflow", "total_value", "total_violations",
       "transaction_id", "ts", "type", "unknown", "verified", "violation",
       "violation_type", "violations", "violations_analyzed", "within_target" >>

\* the items of d by sorted key; defined for the keys KeyOrder lists
SortedPairs(d) ==
    CASE \A i \in DOMAIN d : \E j \in DOMAIN KeyOrder : KeyOrder[j] = d[i][1] ->
        With(SelectSeq(KeyOrder, LAMBDA k : Has(d, k)), LAMBDA ks :
            [i \in DOMAIN ks |-> <<ks[i], Get(d, ks[i], None)>>])

\* a key of the form #n stands for the int n, any other for a str
IsIntKey(k) == Len(k) > 0 /\ SubSeq(k, 1, 1) = "#"

\* the text json.dumps writes for a key
KeyText(k) == IF IsIntKey(k) THEN SubSeq(k, 2, Len(k)) ELSE k

\* a variant: the keys of every dict can be sorted
SortableAlways(v) == TRUE

RECURSIVE Sortable(_)
\* sorted() of the keys of v and of every dict in v does not raise: no dict
\* has both int and str keys
Sortable(v) ==
    CASE v[1] = "list" -> \A i \in DOMAIN v[2] : Sortable(v[2][i])
      [] v[1] = "dict" ->
            /\ \A i, j \in DOMAIN v[2] : IsIntKey(v[2][i][1]) = IsIntKey(v[2][j][1])
            /\ \A i \in DOMAIN v[2] : Sortable(v[2][i][2])
      [] OTHER -> TRUE

RECURSIVE Serializable(_)
Serializable(v) ==
    CASE v[1] = "obj" -> FALSE
      [] v[1] = "list" -> \A i \in DOMAIN v[2] : Serializable(v[2][i])
      [] v[1] = "dict" -> \A i \in DOMAIN v[2] : Serializable(v[2][i][2])
      [] OTHER -> TRUE

RECURSIVE Join(_)
Join(texts) ==
    IF texts = <<>> THEN ""
    ELSE IF Len(texts) = 1 THEN texts[1]
    ELSE Join(SubSeq(texts, 1, Len(texts) \div 2)) \o ", "
         \o Join(SubSeq(texts, Len(texts) \div 2 + 1, Len(texts)))

RECURSIVE SymText(_)
\* the characters of a string of parts; a digest is rendered by its preimage
SymText(parts) ==
    IF parts = <<>> THEN ""
    ELSE (IF parts[1][1] = "lit" THEN parts[1][2]
          ELSE parts[1][1] \o "(" \o parts[1][2] \o ")") \o SymText(Tail(parts))

\* repr() of a float
FloatText(f) ==
    IF f[1] = 0 \/ f[2] = 1 THEN "0.0"
    ELSE ToString(f[1]) \o "*log10(" \o ToString(f[2]) \o ")"

\* repr() of the float n / 10
TenthsText(n) ==
    IF n < 0 THEN "-" \o ToString((-n) \div 10) \o "." \o ToString((-n) % 10)
    ELSE ToString(n \div 10) \o "." \o ToString(n % 10)

MillionsText(n) == IF n = 0 THEN "0" ELSE ToString(n) \o "000000"

\* repr() of the float n / d: its two decimals when it has no more, and
\* the fraction itself otherwise
RatioText(r) ==
    IF (100 * r[1]) % r[2] = 0
    THEN ToString((100 * r[1]) \div (100 * r[2])) \o "."
         \o (IF ((100 * r[1]) \div r[2]) % 100 < 10 THEN "0" ELSE "")
         \o ToString(((100 * r[1]) \div r[2]) % 100)
    ELSE ToString(r[1]) \o "/" \o ToString(r[2])

RECURSIVE json_dumps(_, _)
json_dumps(v, sort_keys) ==
    CASE v[1] = "str" -> "\"" \o v[2] \o "\""
      [] v[1] = "sym" -> "\"" \o SymText(v[2]) \o "\""
      [] v[1] = "int" -> ToString(v[2])
      [] v[1] = "float" -> FloatText(v[2])
      [] v[1] = "tenths" -> TenthsText(v[2])
      [] v[1] = "ratio" -> RatioText(v[2])
      [] v[1] = "millions" -> MillionsText(v[2])
      [] v[1] = "bool" -> IF v[2] THEN "true" ELSE "false"
      [] v[1] = "null" -> "null"
      [] v[1] = "list" ->
            "[" \o Join([i \in DOMAIN v[2] |-> json_dumps(v[2][i], sort_keys)]) \o "]"
      [] v[1] = "dict" ->
            With(IF sort_keys THEN SortedPairs(v[2]) ELSE v[2], LAMBDA ps :
                "{" \o Join([i \in DOMAIN ps |->
                      "\"" \o KeyText(ps[i][1]) \o "\": "
                      \o json_dumps(ps[i][2], sort_keys)])
                    \o "}")

(* ------------------------------------------------------------------ *)
(* core.py                                                             *)
(* ------------------------------------------------------------------ *)
TENANT_ID == "trumpproof"

HAS_BLAKE3 == TRUE

\* data.encode(): the bytes of an ASCII string are its characters
Encode(data) == data

dual_hash(data) ==
    With(Encode(data), LAMBDA bytes :
        Sym(<< <<"sha256", bytes>>, <<"lit", ":">>,
               <<IF HAS_BLAKE3 THEN "blake3" ELSE "sha256", bytes>> >>))

\* datetime.utcnow().isoformat() + "Z"
isoformat(now) == "T" \o ToString(now) \o "Z"

\* dual_hash(json.dumps(data, sort_keys=True))
payload_hash_of(data) == dual_hash(json_dumps(PyDict(data), TRUE))

\* the dict display of emit_receipt: the envelope, then **data
receipt_of(receipt_type, data, now) ==
    DictLiteral(
        << <<"receipt_type", receipt_type>>,
           <<"ts", PyStr(isoformat(now))>>,
           <<"tenant_id", Get(data, "tenant_id", PyStr(TENANT_ID))>>,
           <<"payload_hash", payload_hash_of(data)>> >>
        \o data)

\* a variant: the line holds the payload alone
line_of_payload(receipt, data) == json_dumps(PyDict(data), FALSE)

\* print(json.dumps(receipt), flush=True): the text of the line
line_of(receipt, data) == json_dumps(PyDict(receipt), FALSE)

\* a variant: a failed write is tried once more
write_retried(wok) == wok \in {"ok", "fail_once"}

\* The sink is "ok" (every write succeeds), "fail_once" (the next write fails,
\* one after it would succeed) or "fail" (every write fails).  print is
\* called once.
write_succeeds(wok) == wok = "ok"

NoRet == <<>>

Raise(kind) == [outcome |-> kind, ret |-> NoRet, lines |-> <<>>, calls |-> <<>>]

\* an exception raised after the lines of res were written
RaiseAfter(kind, res) ==
    [outcome |-> kind, ret |-> NoRet, lines |-> res.lines, calls |-> res.calls]

\* what a function that emits nothing hands back
Pure(outcome, ret) == [outcome |-> outcome, ret |-> ret, lines |-> <<>>, calls |-> <<>>]

emit_receipt(receipt_type, data, now, wok) ==
    IF ~Serializable(PyDict(data)) \/ ~Sortable(PyDict(data)) THEN Raise("TypeError")
    ELSE With(receipt_of(receipt_type, data, now), LAMBDA receipt :
         IF ~Serializable(PyDict(receipt)) THEN Raise("TypeError")
         ELSE IF ~write_succeeds(wok) THEN Raise("OSError")
         ELSE [outcome |-> "ok",
               ret |-> receipt,
               lines |-> <<line_of(receipt, data)>>,
               calls |-> <<[receipt_type |-> receipt_type, data |-> data,
                            now |-> now, ret |-> receipt]>>])

\* x[:16] raises TypeError unless x is a sequence
Sliceable(v) == v[1] \in {"str", "sym", "list"}

stoprule_hash_mismatch(expected, actual, now, wok) ==
    With(emit_receipt(PyStr("anomaly"),
             << <<"metric", PyStr("hash_mismatch")>>,
                <<"expected", expected>>,
                <<"actual", actual>>,
                <<"delta", PyInt(-1)>>,
                <<"action", PyStr("halt")>>,
                <<"tenant_id", PyStr(TENANT_ID)>> >>, now, wok), LAMBDA e :
        IF e.outcome # "ok" THEN e
        ELSE IF ~Sliceable(expected) \/ ~Sliceable(actual)
        THEN RaiseAfter("TypeError", e)
        ELSE RaiseAfter("StopRule", e))

stoprule_unverified_claim(claim, now, wok) ==
    With(emit_receipt(PyStr("anomaly"),
             << <<"metric", PyStr("unverified_claim")>>,
                <<"claim", claim>>,
                <<"delta", PyInt(-1)>>,
                <<"action", PyStr("escalate")>>,
                <<"tenant_id", PyStr(TENANT_ID)>> >>, now, wok), LAMBDA e :
        IF e.outcome # "ok" THEN e
        ELSE IF claim[1] # "dict" THEN RaiseAfter("AttributeError", e)
        ELSE RaiseAfter("StopRule", e))

emit_anomaly(metric, baseline, delta, classification, action, now, wok) ==
    emit_receipt(PyStr("anomaly"),
        << <<"metric", metric>>,
           <<"baseline", baseline>>,
           <<"delta", delta>>,
           <<"classification", classification>>,
           <<"action", action>>,
           <<"tenant_id", PyStr(TENANT_ID)>> >>, now, wok)

(* ------------------------------------------------------------------ *)
(* Strings                                                             *)
(* ------------------------------------------------------------------ *)
Uppers == "ABCDEFGHIJKLMNOPQRSTUVWXYZ"

Lowers == "abcdefghijklmnopqrstuvwxyz"

LowerChar(c) ==
    IF \E i \in 1..Len(Uppers) : SubSeq(Uppers, i, i) = c
    THEN With(CHOOSE j \in 1..Len(Uppers) : SubSeq(Uppers, j, j) = c,
              LAMBDA i : SubSeq(Lowers, i, i))
    ELSE c

RECURSIVE Lower(_)
\* str.lower()
Lower(s) ==
    IF Len(s) = 0 THEN ""
    ELSE IF Len(s) = 1 THEN LowerChar(s)
    ELSE Lower(SubSeq(s, 1, Len(s) \div 2))
         \o Lower(SubSeq(s, Len(s) \div 2 + 1, Len(s)))

\* whether v has the methods of str
IsStr(v) == v[1] \in {"str", "sym"}

Text(v) == IF v[1] = "sym" THEN SymText(v[2]) ELSE v[2]

IsNumber(v) == v[1] \in {"int", "bool"}

\* the int a number counts as (True is 1)
Num(v) == IF v[1] = "bool" THEN (IF v[2] THEN 1 ELSE 0) ELSE v[2]

RECURSIVE repr(_)
\* repr(v), which str(v) is for everything but a str
repr(v) ==
    CASE v[1] = "str" -> "'" \o v[2] \o "'"
      [] v[1] = "sym" -> "'" \o SymText(v[2]) \o "'"
      [] v[1] = "int" -> ToString(v[2])
      [] v[1] = "float" -> FloatText(v[2])
      [] v[1] = "tenths" -> TenthsText(v[2])
      [] v[1] = "ratio" -> RatioText(v[2])
      [] v[1] = "millions" -> MillionsText(v[2])
      [] v[1] = "bool" -> IF v[2] THEN "True" ELSE "False"
      [] v[1] = "null" -> "None"
      [] v[1] = "obj" -> "<object>"
      [] v[1] = "list" -> "[" \o Join([i \in DOMAIN v[2] |-> repr(v[2][i])]) \o "]"
      [] v[1] = "dict" ->
            "{" \o Join([i \in DOMAIN v[2] |->
                     (IF IsIntKey(v[2][i][1]) THEN KeyText(v[2][i][1])
                      ELSE "'" \o v[2][i][1] \o "'")
                     \o ": " \o repr(v[2][i][2])]) \o "}"

str(v) == IF IsStr(v) THEN Text(v) ELSE repr(v)

(* ------------------------------------------------------------------ *)
(* core.py: merkle                                                     *)
(* ------------------------------------------------------------------ *)
\* a variant: a level of odd length keeps its last hash as it is
merkle_level_carry(hashes) ==
    [i \in 1..((Len(hashes) + 1) \div 2) |->
        IF 2 * i <= Len(hashes)
        THEN dual_hash(Text(hashes[2 * i - 1]) \o Text(hashes[2 * i]))
        ELSE hashes[2 * i - 1]]

\* a variant: a level of odd length is completed with its first hash
merkle_level_first(hashes) ==
    With(IF Len(hashes) % 2 = 1 THEN Append(hashes, hashes[1]) ELSE hashes,
         LAMBDA hs :
        [i \in 1..(Len(hs) \div 2) |->
            dual_hash(Text(hs[2 * i - 1]) \o Text(hs[2 * i]))])

\* one turn of the while loop: the last hash appended when the count is
\* odd, then each pair hashed
merkle_level(hashes) ==
    With(IF Len(hashes) % 2 = 1 THEN Append(hashes, hashes[Len(hashes)]) ELSE hashes,
         LAMBDA hs :
        [i \in 1..(Len(hs) \div 2) |->
            dual_hash(Text(hs[2 * i - 1]) \o Text(hs[2 * i]))])

RECURSIVE merkle_loop(_)
\* while len(hashes) > 1
merkle_loop(hashes) ==
    IF Len(hashes) > 1 THEN merkle_loop(merkle_level(hashes)) ELSE hashes[1]

\* items: None or a list
merkle(items) ==
    IF ~Truthy(items) THEN Pure("ok", dual_hash("empty"))
    ELSE IF ~Serializable(items) \/ ~Sortable(items) THEN Raise("TypeError")
    ELSE Pure("ok", merkle_loop([i \in DOMAIN items[2] |->
                        dual_hash(json_dumps(items[2][i], TRUE))]))

(* ------------------------------------------------------------------ *)
(* Sequences                                                           *)
(* ------------------------------------------------------------------ *)
RECURSIVE Pick(_, _)
\* the elements of s whose flag in keep is set, in order
Pick(s, keep) ==
    IF s = <<>> THEN <<>>
    ELSE IF Len(s) = 1 THEN (IF keep[1] THEN s ELSE <<>>)
    ELSE Pick(SubSeq(s, 1, Len(s) \div 2), SubSeq(keep, 1, Len(s) \div 2))
         \o Pick(SubSeq(s, Len(s) \div 2 + 1, Len(s)),
                 SubSeq(keep, Len(s) \div 2 + 1, Len(s)))

\* the elements of s in order, each at its first place only
Dedup(s) == Pick(s, [i \in DOMAIN s |-> \A j \in 1..(i - 1) : s[j] # s[i]])

RECURSIVE Flatten(_)
Flatten(ss) ==
    IF ss = <<>> THEN <<>>
    ELSE IF Len(ss) = 1 THEN ss[1]
    ELSE Flatten(SubSeq(ss, 1, Len(ss) \div 2))
         \o Flatten(SubSeq(ss, Len(ss) \div 2 + 1, Len(ss)))

\* the dicts a list of receipts holds
Dicts(receipts) == [i \in DOMAIN receipts[2] |-> receipts[2][i][2]]

\* a variant: the items as they stand
Unsorted(items, keys) == items

\* the stable sort of items by descending key, as list.sort(reverse=True)
SortDesc(items, keys) ==
    With(Built([i \in DOMAIN keys |->
            Cardinality({j \in DOMAIN keys : keys[j] > keys[i]})
            + Cardinality({j \in DOMAIN keys : j < i /\ keys[j] = keys[i]}) + 1]),
         LAMBDA rank :
        Built([p \in DOMAIN items |-> items[CHOOSE i \in DOMAIN items : rank[i] = p]]))

RECURSIVE list_of_set(_)
\* list(S): the elements in the order the set iterates, which Python fixes
\* only within one run; the model takes one order
list_of_set(S) ==
    IF S = {} THEN <<>>
    ELSE With(CHOOSE y \in S : TRUE, LAMBDA x : <<x>> \o list_of_set(S \ {x}))

StrList(xs) == [i \in DOMAIN xs |-> PyStr(xs[i])]

RECURSIVE Pow(_, _)
Pow(x, k) == IF k = 0 THEN 1 ELSE x * Pow(x, k - 1)

RECURSIVE Sum(_)
Sum(ns) == IF ns = <<>> THEN 0 ELSE ns[1] + Sum(Tail(ns))

(* ------------------------------------------------------------------ *)
(* constants.py                                                        *)
(* ------------------------------------------------------------------ *)
LOOP_CYCLE_SECONDS == 60

HARVEST_PERIOD_DAYS == 30

GULF_PIF_INVESTMENT == Millions(2000)

GULF_AFFINITY_AUM == Millions(5400)

GULF_FEES_COLLECTED == Millions(157)

GOLF_LIV_PIF_INVESTMENT == Millions(4580)

\* GULF_PIF_INVESTMENT + GOLF_LIV_PIF_INVESTMENT
PIF_TOTAL_EXPOSURE == Millions(GULF_PIF_INVESTMENT[2] + GOLF_LIV_PIF_INVESTMENT[2])

MODULE_PRIORITY == <<"border", "tariff", "gulf", "golf", "license">>

(* ------------------------------------------------------------------ *)
(* loop/cycle.py                                                       *)
(* ------------------------------------------------------------------ *)
ModuleOfType(type_lower) ==
    IF Contains("tariff", type_lower) \/ Contains("exemption", type_lower)
       \/ Contains("refund", type_lower) THEN "tariff"
    ELSE IF Contains("detention", type_lower) \/ Contains("border", type_lower)
       \/ Contains("citizenship", type_lower) THEN "border"
    ELSE IF Contains("swf", type_lower) \/ Contains("fara", type_lower)
       \/ Contains("investment", type_lower) THEN "gulf"
    ELSE IF Contains("golf", type_lower) \/ Contains("liv", type_lower)
       \/ Contains("emolument", type_lower) THEN "golf"
    ELSE IF Contains("license", type_lower) \/ Contains("ownership", type_lower)
       \/ Contains("partner", type_lower) THEN "license"
    ELSE IF Contains("pif", type_lower) \/ Contains("cross", type_lower)
       \/ Contains("loop", type_lower) THEN "loop"
    ELSE "unknown"

\* a variant: the keywords are looked for in the receipt_type as written
infer_module_as_written(receipt_type) == ModuleOfType(receipt_type)

infer_module(receipt_type) == ModuleOfType(Lower(receipt_type))

\* [outcome, state]: the state dict, or the exception of the first receipt
\* whose receipt_type has no lower()
sense(receipts) ==
    With([i \in DOMAIN receipts |-> Get(receipts[i], "receipt_type", PyStr("unknown"))],
         LAMBDA types :
    IF \E i \in DOMAIN receipts : ~IsStr(types[i])
    THEN [outcome |-> "AttributeError", state |-> <<>>]
    ELSE
    With([i \in DOMAIN receipts |-> infer_module(Text(types[i]))], LAMBDA modules :
    With(Dedup(modules), LAMBDA ms :
    With(Dedup(types), LAMBDA ts :
        [outcome |-> "ok",
         state |->
           [by_module |-> [j \in DOMAIN ms |->
                [module |-> ms[j],
                 receipts |-> Pick(receipts,
                     [i \in DOMAIN receipts |-> modules[i] = ms[j]])]],
            by_type |-> [j \in DOMAIN ts |->
                <<ts[j], Cardinality({i \in DOMAIN receipts : types[i] = ts[j]})>>],
            anomalies |-> Pick(receipts,
                [i \in DOMAIN receipts |-> types[i] = PyStr("anomaly")]),
            total_receipts |-> Len(receipts)]]))))

\* a variant: only the violation field is read
FlaggedByViolation(r) == Truthy(Get(r, "violation", None))

Flagged(r) ==
    \/ Truthy(Get(r, "violation", None))
    \/ Truthy(Get(r, "exceeds_threshold", None))
    \/ Truthy(Get(r, "excessive", None))
    \/ Truthy(Get(r, "favoritism_detected", None))

\* the flagged receipts of one module, as entries of priority_violations
ViolationsOf(module, rs) ==
    With(Pick(rs, [i \in DOMAIN rs |-> Flagged(rs[i])]), LAMBDA hit :
        [i \in DOMAIN hit |->
            [module |-> module,
             receipt_type |-> Get(hit[i], "receipt_type", None),
             details |-> hit[i]]])

analyze(state) ==
    [modules_active |-> [j \in DOMAIN state.by_module |-> state.by_module[j].module],
     anomaly_count |-> Len(state.anomalies),
     cross_domain_patterns |-> <<>>,
     priority_violations |->
        Flatten([p \in DOMAIN MODULE_PRIORITY |->
            Flatten([j \in DOMAIN state.by_module |->
                IF state.by_module[j].module = MODULE_PRIORITY[p]
                THEN ViolationsOf(MODULE_PRIORITY[p], state.by_module[j].receipts)
                ELSE <<>>])])]

\* a variant: the count of receipts runs on from the cycles before (the
\* clock stands for what they left behind)
emit_cycle_receipt_running(cycle_id, metrics, now, wok) ==
    emit_receipt(PyStr("loop_cycle"),
        << <<"tenant_id", PyStr(TENANT_ID)>>,
           <<"cycle_id", cycle_id>>,
           <<"receipts_processed", PyInt(metrics.receipts_processed + now)>>,
           <<"modules_active",
             PyList([j \in DOMAIN metrics.analysis.modules_active |->
                        PyStr(metrics.analysis.modules_active[j])])>>,
           <<"anomalies_detected", PyInt(metrics.analysis.anomaly_count)>>,
           <<"priority_violations",
             PyInt(Len(metrics.analysis.priority_violations))>>,
           <<"cycle_time_ms", PyInt(metrics.cycle_time_ms)>>,
           <<"target_cycle_seconds", PyInt(metrics.target_cycle_seconds)>>,
           <<"within_target",
             PyBool(metrics.cycle_time_ms < LOOP_CYCLE_SECONDS * 1000)>> >>,
        now, wok)

emit_cycle_receipt(cycle_id, metrics, now, wok) ==
    emit_receipt(PyStr("loop_cycle"),
        << <<"tenant_id", PyStr(TENANT_ID)>>,
           <<"cycle_id", cycle_id>>,
           <<"receipts_processed", PyInt(metrics.receipts_processed)>>,
           <<"modules_active",
             PyList([j \in DOMAIN metrics.analysis.modules_active |->
                        PyStr(metrics.analysis.modules_active[j])])>>,
           <<"anomalies_detected", PyInt(metrics.analysis.anomaly_count)>>,
           <<"priority_violations",
             PyInt(Len(metrics.analysis.priority_violations))>>,
           <<"cycle_time_ms", PyInt(metrics.cycle_time_ms)>>,
           <<"target_cycle_seconds", PyInt(metrics.target_cycle_seconds)>>,
           <<"within_target",
             PyBool(metrics.cycle_time_ms < LOOP_CYCLE_SECONDS * 1000)>> >>,
        now, wok)

\* a variant: the call tags every receipt of the list with a module
WithListTagged(res, receipts) ==
    [outcome |-> res.outcome, ret |-> res.ret, lines |-> res.lines,
     calls |-> res.calls,
     receipts |-> IF receipts[1] = "list"
                  THEN PyList([i \in DOMAIN receipts[2] |->
                          PyDict(Put(receipts[2][i][2], "module", PyStr("unknown")))])
                  ELSE receipts]

\* what a function of the correlator hands back: its result, and the list
\* the caller passed as the call leaves it.  The functions only iterate over
\* the list and read the receipts with get(); what they collect goes into
\* lists and dicts of their own.
WithList(res, receipts) ==
    [outcome |-> res.outcome, ret |-> res.ret, lines |-> res.lines,
     calls |-> res.calls, receipts |-> receipts]

\* a variant: the first receipt is left out
receipts_but_first(receipts) ==
    IF Truthy(receipts) THEN Tail(Dicts(receipts)) ELSE <<>>

\* receipts or []
receipts_or_empty(receipts) ==
    IF Truthy(receipts) THEN Dicts(receipts) ELSE <<>>

\* receipts: None or a list; cycle_id: None or a str; elapsed: the
\* milliseconds between the two readings of time.time()
run_cycle(receipts, cycle_id, now, elapsed, wok) ==
    With(receipts_or_empty(receipts), LAMBDA rs :
    With(sense(rs), LAMBDA s :
    IF s.outcome # "ok" THEN WithList(Raise(s.outcome), receipts)
    ELSE WithList(
           emit_cycle_receipt(
               IF Truthy(cycle_id) THEN cycle_id
               ELSE Sym(<<<<"sha256[:16]", "time " \o ToString(now)>>>>),
               [receipts_processed |-> Len(rs),
                state |-> s.state,
                analysis |-> analyze(s.state),
                cycle_time_ms |-> elapsed,
                target_cycle_seconds |-> LOOP_CYCLE_SECONDS],
               now, wok),
           receipts)))

(* ------------------------------------------------------------------ *)
(* loop/harvest.py                                                     *)
(* ------------------------------------------------------------------ *)
infer_module_from_receipt(receipt_type) ==
    IF Contains("tariff", receipt_type) \/ Contains("exemption", receipt_type)
    THEN "tariff"
    ELSE IF Contains("detention", receipt_type) \/ Contains("border", receipt_type)
    THEN "border"
    ELSE IF Contains("swf", receipt_type) \/ Contains("fara", receipt_type)
       \/ Contains("fee", receipt_type) THEN "gulf"
    ELSE IF Contains("golf", receipt_type) \/ Contains("liv", receipt_type)
       \/ Contains("emolument", receipt_type) THEN "golf"
    ELSE IF Contains("license", receipt_type) \/ Contains("ownership", receipt_type)
    THEN "license"
    ELSE "unknown"

\* a variant: a count of violations is a flag as well
IsViolationOrCounts(r) ==
    \/ Get(r, "receipt_type", None) = PyStr("anomaly")
    \/ \E k \in {"violation", "is_violation", "exceeds_threshold", "excessive",
                  "favoritism_detected", "is_emolument", "fara_violation",
                  "total_violations", "priority_violations"} :
          Truthy(Get(r, k, None))

\* a variant: the flags analyze reads
IsPriorityViolation(r) ==
    \/ Get(r, "receipt_type", None) = PyStr("anomaly")
    \/ Flagged(r)

IsViolation(r) ==
    \/ Get(r, "receipt_type", None) = PyStr("anomaly")
    \/ Truthy(Get(r, "violation", None)) \/ Truthy(Get(r, "is_violation", None))
    \/ Truthy(Get(r, "exceeds_threshold", None)) \/ Truthy(Get(r, "excessive", None))
    \/ Truthy(Get(r, "favoritism_detected", None))
    \/ Truthy(Get(r, "is_emolument", None))
    \/ Truthy(Get(r, "fara_violation", None))

\* receipts: a list; period: None or a str
harvest_violations(receipts, period, now, wok) ==
    With(Pick(Dicts(receipts), [i \in DOMAIN receipts[2] |-> IsViolation(receipts[2][i][2])]),
         LAMBDA violations :
    With([i \in DOMAIN violations |-> Get(violations[i], "receipt_type", PyStr(""))],
         LAMBDA types :
    IF \E i \in DOMAIN violations : ~IsStr(types[i])
    THEN WithList(Raise("AttributeError"), receipts)
    ELSE
    With([i \in DOMAIN violations |-> infer_module_from_receipt(Lower(Text(types[i])))],
         LAMBDA modules :
    With(Dedup(modules), LAMBDA ms :
    WithList(
      emit_receipt(PyStr("harvest"),
        << <<"tenant_id", PyStr(TENANT_ID)>>,
           <<"period", IF Truthy(period) THEN period
                       ELSE PyStr("last_" \o ToString(HARVEST_PERIOD_DAYS) \o "_days")>>,
           <<"total_violations", PyInt(Len(violations))>>,
           <<"by_module",
             PyDict([j \in DOMAIN ms |->
                 <<ms[j], PyInt(Cardinality({i \in DOMAIN modules : modules[i] = ms[j]}))>>])>>,
           <<"violations", PyList([i \in DOMAIN violations |-> PyDict(violations[i])])>>,
           <<"harvest_period_days", PyInt(HARVEST_PERIOD_DAYS)>> >>,
        now, wok),
      receipts)))))

remediation_map ==
    << <<"favoritism_detection", "implement_blind_review_process">>,
       <<"excessive_fee", "fee_structure_review">>,
       <<"fara_violation", "doj_referral">>,
       <<"emolument", "disclosure_requirement">>,
       <<"citizen_flag", "immediate_review_protocol">>,
       <<"death_rate", "facility_inspection_mandate">>,
       <<"opacity", "beneficial_ownership_disclosure">> >>

\* the action of the first key of the map found in text
ActionFor(text) ==
    IF \E i \in DOMAIN remediation_map : Contains(remediation_map[i][1], text)
    THEN remediation_map[CHOOSE i \in DOMAIN remediation_map :
            /\ Contains(remediation_map[i][1], text)
            /\ \A j \in 1..(i - 1) : ~Contains(remediation_map[j][1], text)][2]
    ELSE "manual_review_required"

\* a variant: the keys are looked for in the violation_type as written
get_remediation_action_as_written(violation_type) == ActionFor(violation_type)

get_remediation_action(violation_type) == ActionFor(Lower(violation_type))

\* violations: a list of dicts
propose_remediation(violations, now, wok) ==
    With([i \in DOMAIN violations[2] |->
             Get(violations[2][i][2], "receipt_type", PyStr("unknown"))], LAMBDA types :
    With(Dedup(types), LAMBDA vtypes :
    With([j \in DOMAIN vtypes |-> Cardinality({i \in DOMAIN types : types[i] = vtypes[j]})],
         LAMBDA counts :
    With(Pick([j \in DOMAIN vtypes |-> j], [j \in DOMAIN vtypes |-> counts[j] >= 3]),
         LAMBDA recurring :
    IF \E k \in DOMAIN recurring : ~IsStr(vtypes[recurring[k]])
    THEN WithList(Raise("AttributeError"), violations)
    ELSE
    WithList(
      emit_receipt(PyStr("remediation_proposal"),
        << <<"tenant_id", PyStr(TENANT_ID)>>,
           <<"violations_analyzed", PyInt(Len(violations[2]))>>,
           <<"recurring_patterns", PyInt(Len(recurring))>>,
           <<"proposals",
             PyList([k \in DOMAIN recurring |->
                 PyDict(<< <<"violation_type", vtypes[recurring[k]]>>,
                           <<"occurrence_count", PyInt(counts[recurring[k]])>>,
                           <<"proposed_action",
                             PyStr(get_remediation_action(Text(vtypes[recurring[k]])))>>,
                           <<"priority",
                             PyStr(IF counts[recurring[k]] >= 5 THEN "high"
                                   ELSE "medium")>> >>)])>> >>,
        now, wok),
      violations)))))

(* ------------------------------------------------------------------ *)
(* loop/cross_domain.py                                                *)
(* ------------------------------------------------------------------ *)
entity_fields ==
    << "entity_id", "entity_name", "applicant", "contractor_id", "contractor_name",
       "partner_id", "partner_name", "source_name", "recipient_name",
       "fund_id", "fund_name", "licensor_name", "licensee_name" >>

extract_entities(receipt) ==
    With(SelectSeq(entity_fields,
             LAMBDA field : Has(receipt, field) /\ Truthy(Get(receipt, field, None))),
         LAMBDA present :
        [i \in DOMAIN present |-> Lower(str(Get(receipt, present[i], None)))])

InSeq(x, xs) == \E i \in DOMAIN xs : xs[i] = x

\* the entry of overlaps for an entity found in the modules of module_set
overlap_of(entity, module_set) ==
    << <<"entity", PyStr(entity)>>,
       <<"modules", PyList(StrList(list_of_set(module_set)))>>,
       <<"module_count", PyInt(Cardinality(module_set))>> >>

\* modules: a dict of module name -> list of receipts
detect_entity_overlap(modules, now, wok) ==
    With(KeyList(modules[2]), LAMBDA names :
    \* the entities of each module, receipt by receipt
    With(Built([m \in DOMAIN names |->
            Flatten([i \in DOMAIN modules[2][m][2][2] |->
                        extract_entities(modules[2][m][2][2][i][2])])]),
         LAMBDA found :
    With(Dedup(Flatten(found)), LAMBDA entities :
    With(Built([i \in DOMAIN entities |->
            {names[m] : m \in {n \in DOMAIN names : InSeq(entities[i], found[n])}}]),
         LAMBDA entity_modules :
    With(Pick([i \in DOMAIN entities |-> overlap_of(entities[i], entity_modules[i])],
              [i \in DOMAIN entities |-> Cardinality(entity_modules[i]) >= 2]),
         LAMBDA unsorted :
    With(SortDesc(unsorted,
                  Built([i \in DOMAIN unsorted |->
                            Get(unsorted[i], "module_count", None)[2]])),
         LAMBDA overlaps :
    WithList(
      emit_receipt(PyStr("entity_overlap"),
        << <<"tenant_id", PyStr(TENANT_ID)>>,
           <<"modules_analyzed", PyList(StrList(names))>>,
           <<"total_entities", PyInt(Len(entities))>>,
           <<"overlapping_entities", PyInt(Len(overlaps))>>,
           <<"overlaps",
             PyList([i \in 1..(IF Len(overlaps) < 50 THEN Len(overlaps) ELSE 50) |->
                        PyDict(overlaps[i])])>>,
           <<"max_overlap", IF overlaps # <<>> THEN Get(overlaps[1], "module_count", None)
                            ELSE PyInt(0)>> >>,
        now, wok),
      modules)))))))

\* a or b or ... : the first truthy operand, else the last
FirstTruthy(vs) ==
    IF \E i \in DOMAIN vs : Truthy(vs[i])
    THEN vs[CHOOSE i \in DOMAIN vs : Truthy(vs[i]) /\ \A j \in 1..(i - 1) : ~Truthy(vs[j])]
    ELSE vs[Len(vs)]

determine_flow_direction(receipt, entity) ==
    IF Contains(entity, Lower(str(Get(receipt, "recipient_name", PyStr("")))))
    THEN "inflow"
    ELSE "outflow"

get_counterparty(receipt, entity) ==
    IF Contains(entity, Lower(str(Get(receipt, "recipient_name", PyStr("")))))
    THEN Lower(str(Get(receipt, "source_name", PyStr(""))))
    ELSE Lower(str(Get(receipt, "recipient_name", PyStr(""))))

CrossModuleOfType(type_lower) ==
    IF Contains("tariff", type_lower) THEN "tariff"
    ELSE IF Contains("detention", type_lower) \/ Contains("border", type_lower)
    THEN "border"
    ELSE IF Contains("swf", type_lower) \/ Contains("fara", type_lower) THEN "gulf"
    ELSE IF Contains("golf", type_lower) \/ Contains("emolument", type_lower)
    THEN "golf"
    ELSE IF Contains("license", type_lower) THEN "license"
    ELSE "unknown"

\* infer_module of cross_domain.py
cross_infer_module(receipt_type) == CrossModuleOfType(Lower(receipt_type))

\* what one pass of the loop of trace_money_flow does with receipt r:
\* "skip", a flow, or the exception it raises
flow_of(r, entity_lower) ==
    IF ~InSeq(entity_lower, extract_entities(r)) THEN [outcome |-> "skip"]
    ELSE
    With(FirstTruthy(<< Get(r, "amount", PyInt(0)),
                        Get(r, "payment_amount", PyInt(0)),
                        Get(r, "fee_amount", PyInt(0)),
                        Get(r, "contract_value", PyInt(0)),
                        PyInt(0) >>), LAMBDA amount :
    IF ~IsNumber(amount) THEN [outcome |-> "TypeError"]
    ELSE IF ~(Num(amount) > 0) THEN [outcome |-> "skip"]
    ELSE
    With(determine_flow_direction(r, entity_lower), LAMBDA direction :
    With(Get(r, "receipt_type", PyStr("")), LAMBDA receipt_type :
    IF ~IsStr(receipt_type) THEN [outcome |-> "AttributeError"]
    ELSE [outcome |-> "flow",
          amount |-> amount,
          direction |-> direction,
          flow |->
            << <<"receipt_type", Get(r, "receipt_type", None)>>,
               <<"amount", amount>>,
               <<"direction", PyStr(direction)>>,
               <<"counterparty", PyStr(get_counterparty(r, entity_lower))>>,
               <<"module", PyStr(cross_infer_module(Text(receipt_type)))>> >>])))

\* the sum of the amounts of the flows in one direction
TotalFlow(got, direction) ==
    Sum([i \in DOMAIN got |->
            IF got[i].direction = direction THEN Num(got[i].amount) ELSE 0])

\* the first exception among the passes of a loop
FirstRaised(each, fine) ==
    each[CHOOSE i \in DOMAIN each :
            /\ each[i].outcome \notin fine
            /\ \A j \in 1..(i - 1) : each[j].outcome \in fine].outcome

trace_money_flow(entity_id, receipts, now, wok) ==
    IF ~IsStr(entity_id) THEN WithList(Raise("AttributeError"), receipts)
    ELSE
    With([i \in DOMAIN receipts[2] |-> flow_of(receipts[2][i][2], Lower(Text(entity_id)))],
         LAMBDA each :
    IF \E i \in DOMAIN each : each[i].outcome \notin {"skip", "flow"}
    THEN WithList(Raise(FirstRaised(each, {"skip", "flow"})), receipts)
    ELSE
    With(Pick(each, [i \in DOMAIN each |-> each[i].outcome = "flow"]), LAMBDA got :
    With(TotalFlow(got, "inflow"), LAMBDA total_inflow :
    With(TotalFlow(got, "outflow"), LAMBDA total_outflow :
    WithList(
      emit_receipt(PyStr("money_flow"),
        << <<"tenant_id", PyStr(TENANT_ID)>>,
           <<"entity_id", entity_id>>,
           <<"total_inflow", PyInt(total_inflow)>>,
           <<"total_outflow", PyInt(total_outflow)>>,
           <<"net_flow", PyInt(total_inflow - total_outflow)>>,
           <<"flow_count", PyInt(Len(got))>>,
           <<"flows", PyList([i \in DOMAIN got |-> PyDict(got[i].flow)])>> >>,
        now, wok),
      receipts)))))

\* what one pass of the inner loop of compute_centrality does with receipt r
touch_of(r, entity_lower) ==
    IF ~InSeq(entity_lower, extract_entities(r)) THEN [outcome |-> "skip"]
    ELSE
    With(Get(r, "receipt_type", PyStr("")), LAMBDA receipt_type :
    IF ~IsStr(receipt_type) THEN [outcome |-> "AttributeError"]
    ELSE
    With(FirstTruthy(<< Get(r, "amount", PyInt(0)),
                        Get(r, "payment_amount", PyInt(0)),
                        PyInt(0) >>), LAMBDA value :
    IF ~IsNumber(value) THEN [outcome |-> "TypeError"]
    ELSE [outcome |-> "touch",
          module |-> cross_infer_module(Text(receipt_type)),
          value |-> Num(value)]))

\* one pass of the outer loop: the score of an entity, or the exception
score_of(entity, rs) ==
    IF ~IsStr(entity) THEN [outcome |-> "AttributeError"]
    ELSE
    With([i \in DOMAIN rs |-> touch_of(rs[i], Lower(Text(entity)))], LAMBDA each :
    IF \E i \in DOMAIN each : each[i].outcome \notin {"skip", "touch"}
    THEN [outcome |-> FirstRaised(each, {"skip", "touch"})]
    ELSE
    With(Pick(each, [i \in DOMAIN each |-> each[i].outcome = "touch"]), LAMBDA got :
    With(Len(got), LAMBDA connections :
    With({got[i].module : i \in DOMAIN got}, LAMBDA modules_touched :
    With(Sum([i \in DOMAIN got |-> got[i].value]), LAMBDA total_value :
    IF total_value + 1 <= 0 THEN [outcome |-> "ValueError"]
    ELSE [outcome |-> "ok",
          key |-> Pow(total_value + 1, connections * Cardinality(modules_touched)),
          score |->
            << <<"entity", entity>>,
               <<"connections", PyInt(connections)>>,
               <<"modules", PyList(StrList(list_of_set(modules_touched)))>>,
               <<"module_count", PyInt(Cardinality(modules_touched))>>,
               <<"total_value", PyInt(total_value)>>,
               <<"centrality_score",
                 LogFloat(connections * Cardinality(modules_touched),
                          total_value + 1)>> >>])))))

\* entities: a list of names; k * log10(x) orders as x ^ k does
compute_centrality(entities, receipts, now, wok) ==
    With([e \in DOMAIN entities[2] |-> score_of(entities[2][e], Dicts(receipts))],
         LAMBDA each :
    IF \E e \in DOMAIN each : each[e].outcome # "ok"
    THEN WithList(Raise(FirstRaised(each, {"ok"})), receipts)
    ELSE
    With(SortDesc([e \in DOMAIN each |-> PyDict(each[e].score)],
                  [e \in DOMAIN each |-> each[e].key]), LAMBDA scores :
    WithList(
      emit_receipt(PyStr("centrality"),
        << <<"tenant_id", PyStr(TENANT_ID)>>,
           <<"entities_analyzed", PyInt(Len(entities[2]))>>,
           <<"scores", PyList(scores)>>,
           <<"most_central", IF scores # <<>> THEN scores[1] ELSE None>> >>,
        now, wok),
      receipts)))

(* ------------------------------------------------------------------ *)
(* loop/pif_tracker.py                                                 *)
(* ------------------------------------------------------------------ *)
\* the keys of PIF_CONNECTED_ENTITIES, in the order of the literal
PIF_CONNECTED_ENTITIES == <<"affinity partners", "liv golf", "dar global", "dar al arkan">>

infer_domain(receipt_type) ==
    IF Contains("tariff", receipt_type) \/ Contains("exemption", receipt_type)
    THEN "tariff"
    ELSE IF Contains("detention", receipt_type) \/ Contains("border", receipt_type)
    THEN "border"
    ELSE IF Contains("swf", receipt_type) \/ Contains("fara", receipt_type)
       \/ Contains("investment", receipt_type) THEN "gulf"
    ELSE IF Contains("golf", receipt_type) \/ Contains("liv", receipt_type)
       \/ Contains("emolument", receipt_type) THEN "golf"
    ELSE IF Contains("license", receipt_type) \/ Contains("ownership", receipt_type)
    THEN "license"
    ELSE "unknown"

\* the known entities the text r_str names
EntitiesIn(r_str) ==
    SelectSeq(PIF_CONNECTED_ENTITIES, LAMBDA known_entity : Contains(known_entity, r_str))

extract_pif_entities(receipt) == EntitiesIn(Lower(str(PyDict(receipt))))

MentionsPif(r_str) ==
    \/ Contains("pif", r_str)
    \/ Contains("saudi", r_str)
    \/ \E i \in DOMAIN PIF_CONNECTED_ENTITIES : Contains(PIF_CONNECTED_ENTITIES[i], r_str)

PifRelated(r) == MentionsPif(Lower(str(PyDict(r))))

PIF_FLOW_THRESHOLD == 1000000000

\* the pattern of an entity found in the domains of domains
pattern_of(entity, domains) ==
    PyDict(<< <<"type", PyStr("cross_domain_pif_entity")>>,
              <<"entity", PyStr(entity)>>,
              <<"domains", PyList(StrList(list_of_set(domains)))>>,
              <<"domain_count", PyInt(Cardinality(domains))>> >>)

\* a variant: a flow of the threshold itself is significant
flow_pattern_from_threshold(total_pif_flow) ==
    IF total_pif_flow >= PIF_FLOW_THRESHOLD
    THEN << PyDict(<< <<"type", PyStr("significant_pif_flow")>>,
                      <<"total_value", PyInt(total_pif_flow)>>,
                      <<"threshold", PyInt(PIF_FLOW_THRESHOLD)>> >>) >>
    ELSE <<>>

flow_pattern(total_pif_flow) ==
    IF total_pif_flow > PIF_FLOW_THRESHOLD
    THEN << PyDict(<< <<"type", PyStr("significant_pif_flow")>>,
                      <<"total_value", PyInt(total_pif_flow)>>,
                      <<"threshold", PyInt(PIF_FLOW_THRESHOLD)>> >>) >>
    ELSE <<>>

detect_pif_pattern(receipts, now, wok) ==
    With(Pick(Dicts(receipts), [i \in DOMAIN receipts[2] |-> PifRelated(receipts[2][i][2])]),
         LAMBDA pif_receipts :
    With([i \in DOMAIN pif_receipts |-> Get(pif_receipts[i], "receipt_type", PyStr(""))],
         LAMBDA types :
    With([i \in DOMAIN pif_receipts |->
            FirstTruthy(<< Get(pif_receipts[i], "amount", PyInt(0)),
                           Get(pif_receipts[i], "pif_investment", PyInt(0)),
                           PyInt(0) >>)], LAMBDA values :
    IF \E i \in DOMAIN types : ~IsStr(types[i])
    THEN WithList(Raise("AttributeError"), receipts)
    ELSE IF \E i \in DOMAIN values : ~IsNumber(values[i])
    THEN WithList(Raise("TypeError"), receipts)
    ELSE
    With([i \in DOMAIN types |-> infer_domain(Lower(Text(types[i])))], LAMBDA domains :
    With([i \in DOMAIN pif_receipts |-> extract_pif_entities(pif_receipts[i])],
         LAMBDA found :
    With(Dedup(Flatten(found)), LAMBDA entities :
    With([e \in DOMAIN entities |->
            {domains[i] : i \in {n \in DOMAIN found : InSeq(entities[e], found[n])}}],
         LAMBDA entity_domains :
    With(Pick([e \in DOMAIN entities |-> pattern_of(entities[e], entity_domains[e])],
              [e \in DOMAIN entities |-> Cardinality(entity_domains[e]) >= 2])
         \o flow_pattern(Sum([i \in DOMAIN values |-> Num(values[i])])),
         LAMBDA patterns :
    WithList(
      emit_receipt(PyStr("pif_pattern"),
        << <<"tenant_id", PyStr(TENANT_ID)>>,
           <<"receipts_analyzed", PyInt(Len(receipts[2]))>>,
           <<"pif_related_receipts", PyInt(Len(pif_receipts))>>,
           <<"patterns_detected", PyInt(Len(patterns))>>,
           <<"patterns", PyList(patterns)>>,
           <<"central_node_confirmed", PyBool(Len(patterns) >= 2)>> >>,
        now, wok),
      receipts)))))))))

\* the literal by_domain of aggregate_pif_exposure
by_domain ==
    << <<"gulf", PyDict(<< <<"entities", PyList(<<PyStr("Affinity Partners")>>)>>,
                           <<"direct_investment", GULF_PIF_INVESTMENT>>,
                           <<"aum_managed", GULF_AFFINITY_AUM>>,
                           <<"fees_paid", GULF_FEES_COLLECTED>>,
                           <<"relationship", PyStr("LP investment")>> >>)>>,
       <<"golf", PyDict(<< <<"entities", PyList(<<PyStr("LIV Golf")>>)>>,
                           <<"direct_investment", GOLF_LIV_PIF_INVESTMENT>>,
                           <<"ownership_percentage", PyInt(93)>>,
                           <<"relationship", PyStr("93% ownership")>> >>)>>,
       <<"license", PyDict(<< <<"entities", PyList(<<PyStr("Dar Global"),
                                                     PyStr("Dar Al Arkan")>>)>>,
                              <<"direct_investment", Millions(0)>>,
                              <<"project_value", Millions(2033)>>,
                              <<"relationship", PyStr("Development partnerships")>> >>)>>,
       <<"tariff", PyDict(<< <<"entities", PyList(<<PyStr("EA (Electronic Arts)")>>)>>,
                             <<"direct_investment", Millions(0)>>,
                             <<"cfius_exposure", PyBool(TRUE)>>,
                             <<"relationship", PyStr("Trade policy affected")>> >>)>> >>

\* a variant: only a direct investment counts as exposure
has_direct_investment(d) == Get(d, "direct_investment", Millions(0))[2] > 0

\* d.get("direct_investment", 0) > 0 or d.get("project_value", 0) > 0
\* or d.get("cfius_exposure")
has_exposure(d) ==
    \/ Get(d, "direct_investment", Millions(0))[2] > 0
    \/ Get(d, "project_value", Millions(0))[2] > 0
    \/ Truthy(Get(d, "cfius_exposure", None))

aggregate_pif_exposure(now, wok) ==
    With(Millions(Sum([i \in DOMAIN by_domain |->
                         Get(by_domain[i][2][2], "direct_investment", Millions(0))[2]])),
         LAMBDA total_direct :
    With(Len(SelectSeq(by_domain, LAMBDA p : has_exposure(p[2][2]))),
         LAMBDA domains_with_exposure :
      emit_receipt(PyStr("pif_aggregate"),
        << <<"tenant_id", PyStr(TENANT_ID)>>,
           <<"by_domain", PyDict(by_domain)>>,
           <<"domain_count", PyInt(domains_with_exposure)>>,
           <<"total_direct_investment", total_direct>>,
           <<"total_exposure", PIF_TOTAL_EXPOSURE>>,
           <<"cross_domain_verified", PyBool(domains_with_exposure >= 4)>> >>,
        now, wok)))

(* ------------------------------------------------------------------ *)
(* Domain modules: border/citizenship.py, border/condition.py,         *)
(* golf/sanctions.py                                                   *)
(* ------------------------------------------------------------------ *)
\* two emissions one after the other; the second is not reached when the
\* first raises
AndThen(first, second) ==
    IF first.outcome # "ok" THEN first
    ELSE [outcome |-> second.outcome, ret |-> second.ret,
          lines |-> first.lines \o second.lines,
          calls |-> first.calls \o second.calls]

\* evidence: a dict
flag_us_citizen(detainee_id, evidence, now, wok) ==
    AndThen(
        emit_anomaly(PyStr("potential_citizen_detention"), PyInt(0), PyInt(1),
                     PyStr("violation"), PyStr("escalate"), now, wok),
        emit_receipt(PyStr("citizen_flag"),
            << <<"tenant_id", PyStr(TENANT_ID)>>,
               <<"detainee_id", detainee_id>>,
               <<"evidence_type", Get(evidence[2], "type", PyStr("unknown"))>>,
               <<"evidence_description", Get(evidence[2], "description", PyStr(""))>>,
               <<"evidence_strength", Get(evidence[2], "strength", PyStr("unknown"))>>,
               <<"birthplace", Get(evidence[2], "birthplace", PyStr("unknown"))>>,
               <<"parent_citizenship",
                 Get(evidence[2], "parent_citizenship", PyStr("unknown"))>>,
               <<"military_service",
                 Get(evidence[2], "military_service", PyBool(FALSE))>>,
               <<"priority", PyStr("CRITICAL")>>,
               <<"action_required", PyStr("IMMEDIATE_REVIEW")>> >>, now, wok))

\* deaths per 10K detainee-days
BASELINE_RATE == Tenths(5)

\* deaths / detainee_days * 10000 in tenths, for the arguments whose float
\* quotient is a whole number of tenths
rate_per_10k(deaths, detainee_days) ==
    IF detainee_days > 0 THEN Tenths((deaths * 100000) \div detainee_days)
    ELSE PyInt(0)

\* a rate in tenths; the int 0 is 0 tenths
InTenths(rate) == IF rate[1] = "tenths" THEN rate[2] ELSE 10 * rate[2]

\* the anomaly, when the rate is over twice the baseline, and then the receipt
after_rate_anomaly(rate, main, now, wok) ==
    IF InTenths(rate) > 2 * BASELINE_RATE[2]
    THEN AndThen(emit_anomaly(PyStr("death_rate"), BASELINE_RATE,
                              Tenths(InTenths(rate) - BASELINE_RATE[2]),
                              PyStr("degradation"), PyStr("halt"), now, wok),
                 main)
    ELSE main

\* deaths, detainee_days: ints
compute_death_rate(facility_id, period, deaths, detainee_days, now, wok) ==
    With(rate_per_10k(deaths, detainee_days), LAMBDA rate :
        after_rate_anomaly(rate,
            emit_receipt(PyStr("death_rate"),
                << <<"tenant_id", PyStr(TENANT_ID)>>,
                   <<"facility_id", facility_id>>,
                   <<"period", period>>,
                   <<"deaths", PyInt(deaths)>>,
                   <<"detainee_days", PyInt(detainee_days)>>,
                   <<"rate_per_10k_days", rate>>,
                   <<"baseline_rate", BASELINE_RATE>>,
                   <<"exceeds_baseline", PyBool(InTenths(rate) > BASELINE_RATE[2])>>,
                   <<"rate_multiplier", Tenths(2 * InTenths(rate))>>,
                   <<"fy2025_deaths_documented", PyInt(32)>>,
                   <<"deadliest_since", PyInt(2004)>> >>, now, wok),
            now, wok))

HighRiskCountries == {"russia", "iran", "north korea", "syria", "cuba"}

\* what one entry of the SDN list adds to matches
match_of(entity, sdn) ==
    IF Lower(Text(Get(entity[2], "name", PyStr(""))))
           = Lower(Text(Get(sdn[2], "name", PyStr(""))))
    THEN << PyDict(<< <<"sdn_id", Get(sdn[2], "id", None)>>,
                      <<"sdn_name", Get(sdn[2], "name", None)>>,
                      <<"match_type", PyStr("exact_name")>>,
                      <<"confidence", Tenths(10)>> >>) >>
    ELSE IF /\ Lower(Text(Get(entity[2], "country", PyStr(""))))
                  = Lower(Text(Get(sdn[2], "country", PyStr(""))))
            /\ Lower(Text(Get(entity[2], "country", PyStr("")))) \in HighRiskCountries
    THEN << PyDict(<< <<"sdn_id", Get(sdn[2], "id", None)>>,
                      <<"sdn_name", Get(sdn[2], "name", None)>>,
                      <<"match_type", PyStr("high_risk_country")>>,
                      <<"confidence", Tenths(5)>> >>) >>
    ELSE <<>>

\* sdn_list or []
sdn_or_empty(sdn_list) == IF Truthy(sdn_list) THEN sdn_list[2] ELSE <<>>

\* entity: a dict of str fields; sdn_list: None or a list of such dicts
screen_entity(entity, sdn_list, now, wok) ==
    With(Flatten([i \in DOMAIN sdn_or_empty(sdn_list) |->
                     match_of(entity, sdn_or_empty(sdn_list)[i])]), LAMBDA matches :
        emit_receipt(PyStr("sanctions_screening"),
            << <<"tenant_id", PyStr(TENANT_ID)>>,
               <<"entity_id", Get(entity[2], "id", PyStr("unknown"))>>,
               <<"entity_name", Get(entity[2], "name", PyStr("unknown"))>>,
               <<"entity_country", Get(entity[2], "country", PyStr("unknown"))>>,
               <<"sdn_entries_checked", PyInt(Len(sdn_or_empty(sdn_list)))>>,
               <<"matches_found", PyInt(Len(matches))>>,
               <<"matches", PyList(matches)>>,
               <<"cleared", PyBool(Len(matches) = 0)>>,
               <<"requires_review", PyBool(Len(matches) > 0)>> >>, now, wok))

\* the receipt of the transaction, after the screenings of its two parties
transaction_receipt(transaction, sender_screen, recipient_screen, now, wok) ==
    emit_receipt(PyStr("transaction_screening"),
        << <<"tenant_id", PyStr(TENANT_ID)>>,
           <<"transaction_id", Get(transaction[2], "id", PyStr("unknown"))>>,
           <<"amount", Get(transaction[2], "amount", PyInt(0))>>,
           <<"sender_cleared", Get(sender_screen, "cleared", PyBool(TRUE))>>,
           <<"recipient_cleared", Get(recipient_screen, "cleared", PyBool(TRUE))>>,
           <<"blocked",
             PyBool(\/ ~Truthy(Get(sender_screen, "cleared", PyBool(TRUE)))
                    \/ ~Truthy(Get(recipient_screen, "cleared", PyBool(TRUE))))>>,
           <<"sender_matches", Get(sender_screen, "matches", PyList(<<>>))>>,
           <<"recipient_matches", Get(recipient_screen, "matches", PyList(<<>>))>> >>,
        now, wok)

\* transaction: a dict whose sender and recipient are dicts
screen_transaction(transaction, sdn_list, now, wok) ==
    With(AndThen(
            screen_entity(Get(transaction[2], "sender", PyDict(<<>>)), sdn_list, now, wok),
            screen_entity(Get(transaction[2], "recipient", PyDict(<<>>)), sdn_list,
                          now, wok)),
         LAMBDA screens :
        IF screens.outcome # "ok" THEN screens
        ELSE AndThen(screens,
                 transaction_receipt(transaction, screens.calls[1].ret,
                                     screens.calls[2].ret, now, wok)))

(* ------------------------------------------------------------------ *)
(* tariff/exemption.py                                                 *)
(* ------------------------------------------------------------------ *)
FAVORITISM_THRESHOLD == Quotient(15, 100)

\* approved / total if total > 0 else 0
approval_rate(approved, total) == IF total > 0 THEN Quotient(approved, total) ELSE PyInt(0)

\* abs(x - y) of two rates: the int 0 of two ints, a float otherwise
abs_difference(x, y) ==
    With(Fraction(x), LAMBDA a :
    With(Fraction(y), LAMBDA b :
    With(a[1] * b[2] - b[1] * a[2], LAMBDA n :
        IF x[1] = "int" /\ y[1] = "int" THEN PyInt(IF n < 0 THEN -n ELSE n)
        ELSE Quotient(IF n < 0 THEN -n ELSE n, a[2] * b[2]))))

\* x > y of two numbers
Exceeds(x, y) == Fraction(x)[1] * Fraction(y)[2] > Fraction(y)[1] * Fraction(x)[2]

\* outcomes, lobbying_data: lists of dicts
detect_favoritism(outcomes, lobbying_data, now, wok) ==
    With([i \in DOMAIN lobbying_data[2] |->
            Get(lobbying_data[2][i][2], "client", PyStr(""))], LAMBDA clients :
    With([i \in DOMAIN outcomes[2] |->
            Get(outcomes[2][i][2], "applicant", PyStr(""))], LAMBDA applicants :
    IF \/ \E i \in DOMAIN clients : Truthy(clients[i]) /\ ~IsStr(clients[i])
       \/ \E i \in DOMAIN applicants : ~IsStr(applicants[i])
    THEN Raise("AttributeError")
    ELSE
    With({Lower(Text(clients[i])) : i \in {n \in DOMAIN clients : Truthy(clients[n])}},
         LAMBDA lobbyist_entities :
    With({i \in DOMAIN outcomes[2] :
            Get(outcomes[2][i][2], "outcome", None) = PyStr("approved")},
         LAMBDA approved :
    With({i \in DOMAIN outcomes[2] : Lower(Text(applicants[i])) \in lobbyist_entities},
         LAMBDA lobbying :
    With(approval_rate(Cardinality(approved \cap lobbying), Cardinality(lobbying)),
         LAMBDA lobbying_approval_rate :
    With(approval_rate(Cardinality(approved \ lobbying),
                       Len(outcomes[2]) - Cardinality(lobbying)),
         LAMBDA baseline_approval_rate :
    With(abs_difference(lobbying_approval_rate, baseline_approval_rate),
         LAMBDA deviation :
      emit_receipt(PyStr("favoritism_detection"),
        << <<"tenant_id", PyStr(TENANT_ID)>>,
           <<"total_outcomes", PyInt(Len(outcomes[2]))>>,
           <<"approved_count", PyInt(Cardinality(approved))>>,
           <<"lobbying_approval_rate", lobbying_approval_rate>>,
           <<"baseline_approval_rate", baseline_approval_rate>>,
           <<"deviation_score", deviation>>,
           <<"threshold", FAVORITISM_THRESHOLD>>,
           <<"favoritism_detected", PyBool(Exceeds(deviation, FAVORITISM_THRESHOLD))>>,
           <<"connected_entities", PyList(StrList(list_of_set(lobbyist_entities)))>> >>,
        now, wok)))))))))

(* ------------------------------------------------------------------ *)
(* gulf/fees.py                                                        *)
(* ------------------------------------------------------------------ *)
FEE_TO_RETURNS_EXCESSIVE == Tenths(100)

\* fees >= 0 and returns: ints
compute_fee_ratio(fees, returns, now, wok) ==
    With(IF returns = 0 THEN PyStr("infinity")
         ELSE Quotient(fees, IF returns < 0 THEN -returns ELSE returns), LAMBDA ratio :
      emit_receipt(PyStr("fee_ratio"),
        << <<"tenant_id", PyStr(TENANT_ID)>>,
           <<"fees_collected", PyInt(fees)>>,
           <<"returns_generated", PyInt(returns)>>,
           <<"ratio", ratio>>,
           <<"ratio_classification",
             PyStr(IF returns = 0 THEN "infinite"
                   ELSE IF returns < 0 THEN "negative_returns" ELSE "calculated")>>,
           <<"threshold", FEE_TO_RETURNS_EXCESSIVE>>,
           <<"excessive",
             PyBool(returns = 0 \/ Exceeds(ratio, FEE_TO_RETURNS_EXCESSIVE))>>,
           <<"affinity_baseline_fees", GULF_FEES_COLLECTED>>,
           <<"affinity_baseline_returns", PyInt(0)>> >>,
        now, wok))

(* ------------------------------------------------------------------ *)
(* golf/emoluments.py                                                  *)
(* ------------------------------------------------------------------ *)
EMOLUMENTS_DISCLOSURE_THRESHOLD == 10000

\* payment, source: dicts; the amount an int
assess_emolument(payment, source, now, wok) ==
    With(Get(source[2], "country", PyStr("")), LAMBDA country :
    IF ~IsStr(country) THEN Raise("AttributeError")
    ELSE
    With(Lower(Text(country)) \notin {"us", "usa", "united states"}, LAMBDA is_foreign :
    With(FirstTruthy(<< Get(source[2], "is_government", PyBool(FALSE)),
                        Get(source[2], "is_state_owned", PyBool(FALSE)),
                        Get(source[2], "is_sovereign", PyBool(FALSE)) >>),
         LAMBDA is_government :
    With(Num(Get(payment[2], "amount", PyInt(0))), LAMBDA amount :
    With(IF ~is_foreign THEN PyBool(FALSE)
         ELSE IF ~Truthy(is_government) THEN is_government
         ELSE PyBool(amount > 0), LAMBDA is_emolument :
    With(emit_receipt(PyStr("emolument_assessment"),
        << <<"tenant_id", PyStr(TENANT_ID)>>,
           <<"payment_id", Get(payment[2], "id", PyStr("unknown"))>>,
           <<"amount", PyInt(amount)>>,
           <<"source_name", Get(source[2], "name", PyStr("unknown"))>>,
           <<"source_country", Get(source[2], "country", PyStr("unknown"))>>,
           <<"is_foreign", PyBool(is_foreign)>>,
           <<"is_government", is_government>>,
           <<"is_emolument", is_emolument>>,
           <<"disclosure_threshold", PyInt(EMOLUMENTS_DISCLOSURE_THRESHOLD)>>,
           <<"exceeds_threshold", PyBool(amount >= EMOLUMENTS_DISCLOSURE_THRESHOLD)>>,
           <<"messitte_standard",
             PyStr("almost anything of value from foreign governments")>> >>,
        now, wok), LAMBDA assessment :
    IF Truthy(is_emolument) /\ amount >= EMOLUMENTS_DISCLOSURE_THRESHOLD
    THEN AndThen(emit_anomaly(PyStr("emolument_detected"),
                              PyInt(EMOLUMENTS_DISCLOSURE_THRESHOLD),
                              PyInt(amount - EMOLUMENTS_DISCLOSURE_THRESHOLD),
                              PyStr("violation"), PyStr("alert"), now, wok),
                 assessment)
    ELSE assessment))))))

(* ------------------------------------------------------------------ *)
(* license/attestation.py                                              *)
(* ------------------------------------------------------------------ *)
\* payment: a dict
track_fee_payment(license_id, payment, now, wok) ==
    emit_receipt(PyStr("license_fee_payment"),
        << <<"tenant_id", PyStr(TENANT_ID)>>,
           <<"license_id", license_id>>,
           <<"payment_amount", Get(payment[2], "amount", PyInt(0))>>,
           <<"payment_date", Get(payment[2], "date", PyStr("unknown"))>>,
           <<"payment_method", Get(payment[2], "method", PyStr("unknown"))>>,
           <<"source_entity", Get(payment[2], "source", PyStr("unknown"))>>,
           <<"source_country", Get(payment[2], "source_country", PyStr("unknown"))>>,
           <<"is_foreign", Get(payment[2], "is_foreign", PyBool(FALSE))>>,
           <<"verified", Get(payment[2], "verified", PyBool(FALSE))>> >>,
        now, wok)

(* ------------------------------------------------------------------ *)
(* sim.py                                                              *)
(* ------------------------------------------------------------------ *)
\* a number drawn by random.gauss, random.uniform or random.randint(50, 200);
\* no branch of the simulator reads it
RandomNumber(name) == <<"random", name>>

\* SimConfig.modules when the caller gives none
DefaultModules == <<"tariff", "border", "gulf", "golf", "license">>

\* {"receipt_type": ..., "tenant_id": TENANT_ID, <fields>, "cycle": cycle_num}
SimReceipt(receipt_type, fields, cycle_num) ==
    << <<"receipt_type", PyStr(receipt_type)>>, <<"tenant_id", PyStr(TENANT_ID)>> >>
    \o fields \o << <<"cycle", PyInt(cycle_num)>> >>

\* d: what the calls of random return in this cycle
simulate_tariff(config, cycle_num, d) ==
    << SimReceipt("tariff_ingest",
                  << <<"revenue_amount", RandomNumber("revenue")>> >>, cycle_num) >>
    \o (IF config.scenario = "TARIFF_SCOTUS"
        THEN << SimReceipt("exemption_outcome",
                    << <<"outcome", PyStr(IF d.approved THEN "approved" ELSE "denied")>> >>,
                    cycle_num),
                SimReceipt("refund_liability",
                    << <<"liability", RandomNumber("liability")>>,
                       <<"ieepa_status", PyStr(d.ieepa_status)>> >>, cycle_num) >>
        ELSE <<>>)

simulate_border(config, cycle_num, d) ==
    << SimReceipt("detention",
                  << <<"detainee_count", RandomNumber("detainee_count")>> >>, cycle_num) >>
    \o (IF config.scenario = "BORDER_ACCOUNTABILITY"
        THEN (IF InSeq("death_event", config.inject_events) \/ d.death
              THEN << SimReceipt("death_rate",
                          << <<"deaths", PyInt(d.deaths)>>,
                             <<"violation", PyBool(TRUE)>> >>, cycle_num) >>
              ELSE <<>>)
             \o (IF InSeq("citizen_detention", config.inject_events) \/ d.citizen
                 THEN << SimReceipt("citizen_flag",
                             << <<"is_citizen", PyBool(TRUE)>>,
                                <<"violation", PyBool(TRUE)>> >>, cycle_num) >>
                 ELSE <<>>)
        ELSE <<>>)

simulate_gulf(config, cycle_num, d) ==
    << SimReceipt("swf_investment",
                  << <<"amount", GULF_PIF_INVESTMENT>>,
                     <<"fund_name", PyStr("Saudi PIF")>>,
                     <<"is_pif_connected", PyBool(TRUE)>>,
                     <<"domain", PyStr("gulf")>> >>, cycle_num) >>
    \o (IF config.scenario = "GULF_RETURNS"
        THEN << SimReceipt("investment_returns",
                    << <<"return_percentage",
                         IF d.zero_return THEN PyInt(0) ELSE RandomNumber("returns_pct")>>,
                       <<"is_zero_return", PyBool(d.zero_return)>> >>, cycle_num),
                SimReceipt("fee_ratio",
                    << <<"fees_collected", RandomNumber("fees")>>,
                       <<"returns_generated",
                         IF d.zero_return THEN Tenths(0) ELSE RandomNumber("returns")>>,
                       <<"excessive", PyBool(d.zero_return)>> >>, cycle_num) >>
        ELSE <<>>)

simulate_golf(config, cycle_num, d) ==
    (IF d.liv_event
     THEN << SimReceipt("liv_event",
                 << <<"pif_funding", Tenths(GOLF_LIV_PIF_INVESTMENT[2] * 100000)>>,
                    <<"is_trump_property", PyBool(d.is_trump_property)>>,
                    <<"is_pif_connected", PyBool(TRUE)>>,
                    <<"domain", PyStr("golf")>> >>, cycle_num) >>
     ELSE <<>>)
    \o << SimReceipt("emolument_assessment",
              << <<"amount", RandomNumber("amount")>>,
                 <<"is_emolument", PyBool(d.is_emolument)>> >>, cycle_num) >>

simulate_license(config, cycle_num, d) ==
    << SimReceipt("license_registration",
                  << <<"project_value", RandomNumber("project_value")>> >>, cycle_num) >>
    \o (IF d.cross_reference
        THEN << SimReceipt("pif_cross_reference",
                    << <<"is_pif_connected", PyBool(TRUE)>>,
                       <<"domain", PyStr("license")>> >>, cycle_num) >>
        ELSE <<>>)

simulate_module(module, config, cycle_num, d) ==
    IF module = "tariff" THEN simulate_tariff(config, cycle_num, d.tariff)
    ELSE IF module = "border" THEN simulate_border(config, cycle_num, d.border)
    ELSE IF module = "gulf" THEN simulate_gulf(config, cycle_num, d.gulf)
    ELSE IF module = "golf" THEN simulate_golf(config, cycle_num, d.golf)
    ELSE IF module = "license" THEN simulate_license(config, cycle_num, d.license)
    ELSE <<>>

is_violation(receipt) ==
    \E k \in {"violation", "is_violation", "exceeds_threshold", "excessive",
              "favoritism_detected", "is_emolument"} : Truthy(Get(receipt, k, None))

\* sim.run_cycle: the receipts, violations and anomalies of one cycle.  No
\* function that simulate_module calls raises StopRule, so the handler of
\* lines 132-138 never appends its {"type": "stoprule", ...} entry.
sim_run_cycle(config, cycle_num, d) ==
    With(Flatten([m \in DOMAIN config.modules |->
                    simulate_module(config.modules[m], config, cycle_num, d)]),
         LAMBDA receipts :
      [receipts |-> receipts,
       violations |-> SelectSeq(receipts, is_violation),
       anomalies |-> SelectSeq(receipts,
                        LAMBDA r : Get(r, "receipt_type", None) = PyStr("anomaly"))])

\* sim.infer_domain
sim_infer_domain(receipt_type) ==
    With(Lower(receipt_type), LAMBDA type_lower :
    IF Contains("tariff", type_lower) THEN "tariff"
    ELSE IF Contains("detention", type_lower) \/ Contains("border", type_lower)
    THEN "border"
    ELSE IF Contains("swf", type_lower) \/ Contains("fara", type_lower) THEN "gulf"
    ELSE IF Contains("golf", type_lower) \/ Contains("liv", type_lower) THEN "golf"
    ELSE IF Contains("license", type_lower) THEN "license"
    ELSE "unknown")

\* run_simulation, lines 86-92: the domains of the PIF receipts
pif_domains_of(receipts) ==
    { Text(Get(receipts[i], "domain",
               PyStr(sim_infer_domain(Text(Get(receipts[i], "receipt_type", PyStr("")))))))
        : i \in { j \in DOMAIN receipts :
                    \/ Contains("pif", Lower(Text(Get(receipts[j], "receipt_type",
                                                      PyStr("")))))
                    \/ Truthy(Get(receipts[j], "is_pif_connected", None)) } }
    \ {"", "unknown"}

\* a variant: every violation fails a BASELINE run
every_violation(violations) == violations

\* check_pass_criteria: the violations a BASELINE run fails on
stoprule_violations(violations) ==
    SelectSeq(violations, LAMBDA v : Get(v, "type", None) = PyStr("stoprule"))

HasType(receipts, receipt_type) ==
    \E i \in DOMAIN receipts : Get(receipts[i], "receipt_type", None) = PyStr(receipt_type)

\* the flag check_pass_criteria returns; the message it returns with the flag
\* is left out.  GODEL stands for the scenario name with an umlaut.
check_pass_criteria(scenario, receipts, violations, pif_domains) ==
    CASE scenario = "BASELINE" -> stoprule_violations(violations) = <<>>
      [] scenario = "TARIFF_SCOTUS" -> HasType(receipts, "refund_liability")
      [] scenario = "BORDER_ACCOUNTABILITY" ->
            \E i \in DOMAIN receipts :
                Contains("detention", Text(Get(receipts[i], "receipt_type", PyStr(""))))
      [] scenario = "GULF_RETURNS" -> HasType(receipts, "fee_ratio")
      [] scenario = "CROSS_DOMAIN_PIF" -> ~(Cardinality(pif_domains) < 4)
      [] scenario = "GODEL" -> TRUE
      [] OTHER -> FALSE

\* run_simulation after its last cycle: the SimResult
sim_result(config, receipts, violations, anomalies) ==
    With(pif_domains_of(receipts), LAMBDA pif_domains :
      [scenario |-> config.scenario,
       n_cycles |-> config.n_cycles,
       receipts |-> receipts,
       violations |-> violations,
       anomalies |-> anomalies,
       pif_domain_count |-> Cardinality(pif_domains),
       pif_total_exposure |-> PIF_TOTAL_EXPOSURE,
       passed |-> check_pass_criteria(config.scenario, receipts, violations,
                                      pif_domains)])

(* ------------------------------------------------------------------ *)
(* What sense and analyze return, as the dicts they are                *)
(* ------------------------------------------------------------------ *)
state_dict(state) ==
    << <<"by_module",
         PyDict([j \in DOMAIN state.by_module |->
            <<state.by_module[j].module,
              PyDict(<< <<"count", PyInt(Len(state.by_module[j].receipts))>>,
                        <<"receipts",
                          PyList([i \in DOMAIN state.by_module[j].receipts |->
                                     PyDict(state.by_module[j].receipts[i])])>> >>)>>])>>,
       <<"by_type",
         PyDict([j \in DOMAIN state.by_type |->
            <<Text(state.by_type[j][1]), PyInt(state.by_type[j][2])>>])>>,
       <<"anomalies",
         PyList([i \in DOMAIN state.anomalies |-> PyDict(state.anomalies[i])])>>,
       <<"total_receipts", PyInt(state.total_receipts)>> >>

analysis_dict(analysis) ==
    << <<"modules_active",
         PyList([j \in DOMAIN analysis.modules_active |->
                    PyStr(analysis.modules_active[j])])>>,
       <<"anomaly_count", PyInt(analysis.anomaly_count)>>,
       <<"cross_domain_patterns", PyList(<<>>)>>,
       <<"priority_violations",
         PyList([i \in DOMAIN analysis.priority_violations |->
            PyDict(<< <<"module", PyStr(analysis.priority_violations[i].module)>>,
                      <<"receipt_type", analysis.priority_violations[i].receipt_type>>,
                      <<"details", PyDict(analysis.priority_violations[i].details)>> >>)])>> >>

(* ------------------------------------------------------------------ *)
(* Inputs                                                              *)
(* ------------------------------------------------------------------ *)
ReceiptTypes == {PyStr("x"), PyStr("anomaly")}

Payloads ==
    { <<>>,
      << <<"k", PyStr("v")>> >>,
      << <<"tenant_id", PyStr(TENANT_ID)>>, <<"k", PyStr("v")>> >>,
      << <<"k", PyStr("v")>>, <<"tenant_id", PyStr(TENANT_ID)>> >>,
      << <<"tenant_id", PyStr("acme")>>, <<"k", PyStr("v")>> >>,
      << <<"a", PyInt(1)>>, <<"b", PyList(<<PyBool(TRUE), None>>)>> >>,
      << <<"b", PyList(<<PyBool(TRUE), None>>)>>, <<"a", PyInt(1)>> >>,
      << <<"receipt_type", PyStr("y")>> >>,
      << <<"ts", PyStr("forged")>> >>,
      << <<"payload_hash", PyStr("zz")>> >>,
      << <<"payload_hash", PyStr("zz")>>, <<"tenant_id", PyStr(TENANT_ID)>> >>,
      << <<"k", Obj>> >> }

\* the payloads of the specification of the whole interface
FewPayloads ==
    { << <<"k", PyStr("v")>> >>,
      << <<"k", Obj>> >> }

SinkStates == {"ok", "fail_once", "fail"}

\* arguments of the annotated type str
HashArgs == {PyStr("abc"), PyStr("")}

\* arguments of the annotated type dict
Claims ==
    { PyDict(<< <<"type", PyStr("test")>> >>),
      PyDict(<<>>),
      PyDict(<< <<"type", PyStr("test")>>, <<"k", Obj>> >>) }

Ticks(c) == {t \in {0, 1} : c + t <= MaxClock}

\* well-formed receipts
RTariff == PyDict(<< <<"receipt_type", PyStr("tariff_ingest")>>, <<"revenue", PyInt(100)>> >>)

RDetention == PyDict(<< <<"receipt_type", PyStr("detention")>>, <<"count", PyInt(50)>> >>)

RAnomaly == PyDict(<< <<"receipt_type", PyStr("anomaly")>>, <<"metric", PyStr("test")>> >>)

RViolation == PyDict(<< <<"receipt_type", PyStr("test")>>, <<"violation", PyBool(TRUE)>> >>)

RPayment ==
    PyDict(<< <<"receipt_type", PyStr("golf_payment")>>,
              <<"source_name", PyStr("Saudi PIF")>>,
              <<"recipient_name", PyStr("Acme")>>,
              <<"amount", PyInt(40)>> >>)

RInvestment ==
    PyDict(<< <<"receipt_type", PyStr("swf_investment")>>,
              <<"entity_name", PyStr("Acme")>>,
              <<"amount", PyInt(7)>>,
              <<"excessive", PyBool(TRUE)>> >>)

\* malformed receipts
RNullType ==
    PyDict(<< <<"receipt_type", None>>,
              <<"entity_name", PyStr("Saudi PIF")>>,
              <<"amount", PyInt(5)>>,
              <<"violation", PyBool(TRUE)>> >>)

RTextAmount ==
    PyDict(<< <<"receipt_type", PyStr("swf_investment")>>,
              <<"entity_name", PyStr("Saudi PIF")>>,
              <<"amount", PyStr("lots")>> >>)

RNegativeAmount ==
    PyDict(<< <<"receipt_type", PyStr("golf_payment")>>,
              <<"entity_name", PyStr("Acme")>>,
              <<"amount", PyInt(0 - 5)>> >>)

REmpty == PyDict(<<>>)

RNullFields ==
    PyDict(<< <<"receipt_type", PyStr("test")>>,
              <<"entity_name", None>>,
              <<"amount", None>>,
              <<"violation", None>> >>)

WellFormedLists ==
    { PyList(<<>>),
      PyList(<<RTariff, RDetention>>),
      PyList(<<RAnomaly, RViolation, RTariff>>),
      PyList(<<RPayment, RInvestment>>) }

MalformedLists ==
    { PyList(<<RNullType>>),
      PyList(<<RTextAmount>>),
      PyList(<<RNegativeAmount>>),
      PyList(<<REmpty, RNullFields>>) }

ReceiptLists == WellFormedLists \cup MalformedLists

ModuleDicts ==
    { PyDict(<< <<"golf", PyList(<<RPayment>>)>>, <<"gulf", PyList(<<RInvestment>>)>> >>),
      PyDict(<< <<"golf", PyList(<<RNegativeAmount, REmpty>>)>>,
                <<"gulf", PyList(<<RNullType, RTextAmount, RNullFields>>)>>,
                <<"license", PyList(<<RNullType>>)>> >>),
      PyDict(<<>>) }

\* (receipts, cycle_id, elapsed milliseconds) of a cycle
CycleRuns ==
    {<<l, None, 5>> : l \in ReceiptLists \cup {None}}
    \cup {<<PyList(<<RTariff, RDetention>>), PyStr("c1"), 60000>>}

SenseLists ==
    { PyList(<<RTariff, RDetention>>), PyList(<<RAnomaly, RViolation, RTariff>>),
      PyList(<<RNullType>>), PyList(<<REmpty, RNullFields>>) }

HarvestLists ==
    { PyList(<<>>), PyList(<<RAnomaly, RViolation, RTariff>>),
      PyList(<<RPayment, RInvestment>>),
      PyList(<<RNullType>>), PyList(<<REmpty, RNullFields>>) }

\* (entity_id, receipts) of a trace
Traces ==
    { <<PyStr("Acme"), PyList(<<RPayment, RInvestment>>)>>,
      <<PyStr("saudi pif"), PyList(<<RPayment, RInvestment>>)>>,
      <<PyStr("saudi pif"), PyList(<<RNullType>>)>>,
      <<PyStr("saudi pif"), PyList(<<RTextAmount>>)>>,
      <<PyStr("Acme"), PyList(<<RNegativeAmount>>)>>,
      <<PyStr("Acme"), PyList(<<REmpty, RNullFields>>)>> }

\* (entities, receipts) of a centrality computation
Centralities ==
    { <<PyList(<<PyStr("Saudi PIF"), PyStr("acme")>>), PyList(<<RPayment, RInvestment>>)>>,
      <<PyList(<<>>), PyList(<<RPayment>>)>>,
      <<PyList(<<PyStr("Saudi PIF")>>), PyList(<<RNullType>>)>>,
      <<PyList(<<PyStr("Saudi PIF")>>), PyList(<<RTextAmount>>)>>,
      <<PyList(<<PyStr("Acme")>>), PyList(<<RNegativeAmount>>)>>,
      <<PyList(<<PyStr("Acme")>>), PyList(<<REmpty, RNullFields>>)>> }

PifLists ==
    { PyList(<<>>), PyList(<<RPayment, RInvestment>>),
      PyList(<<RNullType>>), PyList(<<RTextAmount>>),
      PyList(<<REmpty, RNullFields>>) }

\* SimConfig(n_cycles, modules, scenario, inject_events)
SimConfig(n_cycles, modules, scenario, inject_events) ==
    [n_cycles |-> n_cycles, modules |-> modules, scenario |-> scenario,
     inject_events |-> inject_events]

\* the configurations of run_scenario and of the tests, with every number of
\* cycles up to MaxCycles, range(-1) included; no module is listed twice
SimConfigs ==
    UNION { { SimConfig(n, DefaultModules, "BASELINE", <<>>),
              SimConfig(n, <<"golf", "archive">>, "BASELINE", <<>>),
              SimConfig(n, <<"tariff">>, "TARIFF_SCOTUS", <<>>),
              SimConfig(n, <<"border">>, "BORDER_ACCOUNTABILITY",
                        <<"death_event", "citizen_detention">>),
              SimConfig(n, <<"border">>, "BORDER_ACCOUNTABILITY", <<>>),
              SimConfig(n, <<"gulf">>, "GULF_RETURNS", <<>>),
              SimConfig(n, DefaultModules, "CROSS_DOMAIN_PIF", <<>>),
              SimConfig(n, DefaultModules, "GODEL", <<>>) } : n \in -1..MaxCycles }

\* what random returns to simulate_tariff: random() < approval_rate and
\* choice(["pending", "affirmed", "struck"]), read in TARIFF_SCOTUS only
TariffDraws(config) ==
    IF InSeq("tariff", config.modules) /\ config.scenario = "TARIFF_SCOTUS"
    THEN [approved : BOOLEAN, ieepa_status : {"pending", "affirmed", "struck"}]
    ELSE {[approved |-> FALSE, ieepa_status |-> "pending"]}

\* what random returns to simulate_border in BORDER_ACCOUNTABILITY:
\* random() < 0.02 and random() < 0.05 unless the event is injected, and
\* randint(1, 3) for a death receipt
BorderDraws(config) ==
    { d \in [death : BOOLEAN, deaths : 1..3, citizen : BOOLEAN] :
        /\ (\/ ~InSeq("border", config.modules)
            \/ config.scenario # "BORDER_ACCOUNTABILITY")
              => (~d.death /\ d.deaths = 1 /\ ~d.citizen)
        /\ InSeq("death_event", config.inject_events) => ~d.death
        /\ (~d.death /\ ~InSeq("death_event", config.inject_events)) => d.deaths = 1
        /\ InSeq("citizen_detention", config.inject_events) => ~d.citizen }

\* random() < 0.7, read in GULF_RETURNS only
GulfDraws(config) ==
    IF InSeq("gulf", config.modules) /\ config.scenario = "GULF_RETURNS"
    THEN [zero_return : BOOLEAN]
    ELSE {[zero_return |-> FALSE]}

\* random() < 0.3, then random() < 0.5 for a LIV event, and random() < 0.4
GolfDraws(config) ==
    IF InSeq("golf", config.modules)
    THEN { d \in [liv_event : BOOLEAN, is_trump_property : BOOLEAN,
                  is_emolument : BOOLEAN] : ~d.liv_event => ~d.is_trump_property }
    ELSE {[liv_event |-> FALSE, is_trump_property |-> FALSE, is_emolument |-> FALSE]}

\* random() < 0.5
LicenseDraws(config) ==
    IF InSeq("license", config.modules)
    THEN [cross_reference : BOOLEAN]
    ELSE {[cross_reference |-> FALSE]}

\* what the calls of random return in one cycle of a run
Draws(config) ==
    [tariff : TariffDraws(config), border : BorderDraws(config),
     gulf : GulfDraws(config), golf : GolfDraws(config),
     license : LicenseDraws(config)]

\* the entry run_cycle appends for a StopRule
StopruleEntry(module, cycle_num) ==
    << <<"type", PyStr("stoprule")>>, <<"module", PyStr(module)>>,
       <<"cycle", PyInt(cycle_num)>>, <<"error", PyStr("UNVERIFIED CLAIM: c")>> >>

\* lists of violations as run_cycle builds them
CheckedViolations ==
    { <<>>,
      << SimReceipt("emolument_assessment", << <<"is_emolument", PyBool(TRUE)>> >>, 0) >>,
      << StopruleEntry("golf", 0) >>,
      << SimReceipt("emolument_assessment", << <<"is_emolument", PyBool(TRUE)>> >>, 0),
         StopruleEntry("license", 1), StopruleEntry("tariff", 2) >> }

CheckedReceipts ==
    { <<>>,
      << SimReceipt("refund_liability", <<>>, 0), SimReceipt("detention", <<>>, 0) >>,
      << SimReceipt("fee_ratio", <<>>, 0) >> }

CheckedDomains ==
    { {}, {"gulf", "golf", "license"}, {"gulf", "golf", "license", "tariff"},
      {"gulf", "golf", "license", "tariff", "border"} }

Scenarios ==
    {"BASELINE", "TARIFF_SCOTUS", "BORDER_ACCOUNTABILITY", "GULF_RETURNS",
     "CROSS_DOMAIN_PIF", "GODEL"}

\* the simulator before its first run
NoSimulation ==
    [status |-> "idle", config |-> SimConfig(0, <<>>, "", <<>>), cycle |-> 0,
     receipts |-> <<>>, violations |-> <<>>, anomalies |-> <<>>,
     pif_domain_count |-> 0, passed |-> FALSE]

(* ------------------------------------------------------------------ *)
(* State machine                                                       *)
(* ------------------------------------------------------------------ *)
Init ==
    /\ sink = <<>>
    /\ calls = <<>>
    /\ clock = 0
    /\ made = 0
    /\ last = [op |-> "none", outcome |-> "none", ret |-> NoRet, args |-> <<>>,
               wok |-> "ok", lines |-> 0, before |-> None, after |-> None]
    /\ history = <<>>
    /\ sim = NoSimulation

\* the driver has calls left
CanCall == made < MaxCalls

\* the first call on a new ledger
FirstCall == made = 0

\* the sequences of at most n elements of S
SeqsUpTo(S, n) == UNION {[1..k -> S] : k \in 0..n}

\* what one call of the driver leaves behind; before and after are the
\* caller's list (or dict of lists) around the call
ApplyL(op, args, wok, now, res, before, after) ==
    /\ made' = made + 1
    /\ sink' = sink \o res.lines
    /\ calls' = calls \o res.calls
    /\ clock' = now
    /\ last' = [op |-> op, outcome |-> res.outcome, ret |-> res.ret,
                args |-> args, wok |-> wok, lines |-> Len(res.lines),
                before |-> before, after |-> after]
    /\ history' = Append(history, [op |-> op, args |-> args, wok |-> wok,
                                    outcome |-> res.outcome, ret |-> res.ret])
    /\ UNCHANGED sim

Apply(op, args, wok, now, res) == ApplyL(op, args, wok, now, res, None, None)

\* the call of one function: its result, the caller's list after it included
Call(op, args, now, wok) ==
    CASE op = "emit_receipt" -> emit_receipt(args[1], args[2], now, wok)
      [] op = "stoprule_hash_mismatch" ->
            stoprule_hash_mismatch(args[1], args[2], now, wok)
      [] op = "stoprule_unverified_claim" ->
            stoprule_unverified_claim(args[1], now, wok)
      [] op = "emit_anomaly" ->
            emit_anomaly(args[1], args[2], args[3], args[4], args[5], now, wok)
      [] op = "run_cycle" -> run_cycle(args[1], args[2], now, args[3], wok)
      [] op = "sense" ->
            With(sense(Dicts(args[1])), LAMBDA s :
                WithList(Pure(s.outcome,
                    IF s.outcome = "ok" THEN state_dict(s.state) ELSE NoRet), args[1]))
      [] op = "analyze" ->
            WithList(Pure("ok", analysis_dict(analyze(sense(Dicts(args[1])).state))),
                     args[1])
      [] op = "harvest_violations" -> harvest_violations(args[1], args[2], now, wok)
      [] op = "detect_entity_overlap" -> detect_entity_overlap(args[1], now, wok)
      [] op = "trace_money_flow" -> trace_money_flow(args[1], args[2], now, wok)
      [] op = "compute_centrality" -> compute_centrality(args[1], args[2], now, wok)
      [] op = "detect_pif_pattern" -> detect_pif_pattern(args[1], now, wok)

\* the arguments of emit_anomaly
AnomalyArgs ==
    {<<PyStr("death_rate"), PyInt(0), PyInt(2), k, PyStr("alert")>> :
        k \in {PyStr("drift"), PyStr("violation")}}

\* (function, arguments) of every call the driver can make
Requests ==
    {<<"emit_receipt", <<T, data>>>> : T \in ReceiptTypes, data \in Payloads}
    \cup {<<"stoprule_hash_mismatch", <<e, a>>>> : e \in HashArgs, a \in HashArgs}
    \cup {<<"stoprule_unverified_claim", <<c>>>> : c \in Claims}
    \cup {<<"emit_anomaly", a>> : a \in AnomalyArgs}
    \cup {<<"run_cycle", run>> : run \in CycleRuns}
    \cup {<<"sense", <<l>>>> : l \in SenseLists}
    \cup {<<"analyze", <<l>>>> :
            l \in {x \in SenseLists : sense(Dicts(x)).outcome = "ok"}}
    \cup {<<"harvest_violations", <<l, None>>>> : l \in HarvestLists}
    \cup {<<"detect_entity_overlap", <<m>>>> : m \in ModuleDicts}
    \cup {<<"trace_money_flow", t>> : t \in Traces}
    \cup {<<"compute_centrality", c>> : c \in Centralities}
    \cup {<<"detect_pif_pattern", <<l>>>> : l \in PifLists}

\* A call reads nothing but its arguments, the clock and the ledger it writes
\* to, so its result is computed once for each of them.
Results ==
    {<<r[1], r[2], now, wok, Call(r[1], r[2], now, wok)>> :
        r \in Requests, now \in 0..MaxClock, wok \in SinkStates}

Result(op, args, now, wok) ==
    (CHOOSE e \in Results :
        e[1] = op /\ e[2] = args /\ e[3] = now /\ e[4] = wok)[5]

EmitReceiptOn(Ts, Ps, Ws) ==
    /\ CanCall
    /\ \E T \in Ts, data \in Ps, wok \in Ws, t \in Ticks(clock) :
        Apply("emit_receipt", <<T, data>>, wok, clock + t,
              Result("emit_receipt", <<T, data>>, clock + t, wok))

StopruleHashMismatchOn(As, Ws) ==
    /\ CanCall
    /\ \E expected \in As, actual \in As, wok \in Ws, t \in Ticks(clock) :
        Apply("stoprule_hash_mismatch", <<expected, actual>>, wok, clock + t,
              Result("stoprule_hash_mismatch", <<expected, actual>>, clock + t, wok))

StopruleUnverifiedClaimOn(Cs, Ws) ==
    /\ CanCall
    /\ \E claim \in Cs, wok \in Ws, t \in Ticks(clock) :
        Apply("stoprule_unverified_claim", <<claim>>, wok, clock + t,
              Result("stoprule_unverified_claim", <<claim>>, clock + t, wok))

EmitAnomalyOn(Ks, Ws) ==
    /\ CanCall
    /\ \E args \in Ks, wok \in Ws, t \in Ticks(clock) :
        Apply("emit_anomaly", args, wok, clock + t,
              Result("emit_anomaly", args, clock + t, wok))

RunCycleOn(Rs, Ws) ==
    /\ CanCall
    /\ \E run \in Rs, wok \in Ws, t \in Ticks(clock) :
        \E res \in {Result("run_cycle", run, clock + t, wok)} :
           ApplyL("run_cycle", <<run[1], run[2]>>, wok, clock + t, res,
                  run[1], res.receipts)

SenseOn(Ls) ==
    /\ CanCall
    /\ \E receipts \in Ls :
        \E res \in {Result("sense", <<receipts>>, clock, "ok")} :
           ApplyL("sense", <<receipts>>, "ok", clock, res, receipts, res.receipts)

AnalyzeOn(Ls) ==
    /\ CanCall
    /\ \E receipts \in Ls :
        /\ Result("sense", <<receipts>>, clock, "ok").outcome = "ok"
        /\ \E res \in {Result("analyze", <<receipts>>, clock, "ok")} :
              ApplyL("analyze", <<receipts>>, "ok", clock, res, receipts, res.receipts)

HarvestViolationsOn(Ls, Ps, Ws) ==
    /\ CanCall
    /\ \E receipts \in Ls, period \in Ps, wok \in Ws, t \in Ticks(clock) :
        \E res \in {Result("harvest_violations", <<receipts, period>>, clock + t, wok)} :
           ApplyL("harvest_violations", <<receipts, period>>, wok, clock + t, res,
                  receipts, res.receipts)

DetectEntityOverlapOn(Ms, Ws) ==
    /\ CanCall
    /\ \E modules \in Ms, wok \in Ws, t \in Ticks(clock) :
        \E res \in {Result("detect_entity_overlap", <<modules>>, clock + t, wok)} :
           ApplyL("detect_entity_overlap", <<modules>>, wok, clock + t, res,
                  modules, res.receipts)

TraceMoneyFlowOn(Es, Ws) ==
    /\ CanCall
    /\ \E trace \in Es, wok \in Ws, t \in Ticks(clock) :
        \E res \in {Result("trace_money_flow", trace, clock + t, wok)} :
           ApplyL("trace_money_flow", trace, wok, clock + t, res,
                  trace[2], res.receipts)

ComputeCentralityOn(Es, Ws) ==
    /\ CanCall
    /\ \E c \in Es, wok \in Ws, t \in Ticks(clock) :
        \E res \in {Result("compute_centrality", c, clock + t, wok)} :
           ApplyL("compute_centrality", c, wok, clock + t, res,
                  c[2], res.receipts)

DetectPifPatternOn(Ls, Ws) ==
    /\ CanCall
    /\ \E receipts \in Ls, wok \in Ws, t \in Ticks(clock) :
        \E res \in {Result("detect_pif_pattern", <<receipts>>, clock + t, wok)} :
           ApplyL("detect_pif_pattern", <<receipts>>, wok, clock + t, res,
                  receipts, res.receipts)

(* the emitter alone, on every payload shape *)
EmitReceipt == EmitReceiptOn(ReceiptTypes, Payloads, {"ok"})

NextEmit == EmitReceipt

SpecEmit == Init /\ [][NextEmit]_vars

(* emit_receipt on payloads that serialise and payloads that do not, with *)
(* a sink that can and a sink that cannot be written                      *)
SerialPayloads ==
    { << <<"k", PyStr("v")>> >>,
      << <<"#1", PyStr("v")>> >>,
      << <<"#2", PyStr("v")>>, <<"#1", PyDict(<< <<"a", PyInt(1)>> >>)>> >>,
      << <<"k", Obj>> >>,
      << <<"a", PyInt(1)>>, <<"b", PyList(<<PyBool(TRUE), Obj>>)>> >>,
      << <<"k", PyStr("v")>>, <<"#1", PyStr("v")>> >>,
      << <<"a", PyInt(1)>>,
         <<"b", PyDict(<< <<"#1", None>>, <<"k", PyStr("v")>> >>)>> >> }

EmitPayload ==
    /\ made < MaxEmits
    /\ \E data \in SerialPayloads, wok \in {"ok", "fail"} :
          Apply("emit_receipt", <<PyStr("x"), data>>, wok, clock,
                emit_receipt(PyStr("x"), data, clock, wok))

NextSerial == EmitPayload

SpecSerial == Init /\ [][NextSerial]_vars

(* merkle, on lists of every length up to MaxItems *)
NumberedItems(n) == PyList([i \in 1..n |-> PyInt(i)])

KeyedItems(n) ==
    PyList([i \in 1..n |-> PyDict(<< <<"k", PyInt(i)>>, <<"a", PyStr("v")>> >>)])

MerkleLists ==
    {NumberedItems(n) : n \in 0..MaxItems}
        \cup {KeyedItems(n) : n \in 1..MaxItems}
        \cup {None, PyList(<<PyInt(1), Obj>>)}

Merkle ==
    /\ CanCall
    /\ \E items \in MerkleLists :
          Apply("merkle", <<items>>, "ok", clock, merkle(items))

NextMerkle == Merkle

SpecMerkle == Init /\ [][NextMerkle]_vars

(* merkle on a list, and then on the list with its last item repeated     *)
Leaves ==
    {PyInt(1), PyStr("a"), PyDict(<< <<"b", PyInt(1)>>, <<"a", PyInt(2)>> >>)}

LeafLists == {PyList(xs) : xs \in SeqsUpTo(Leaves, MaxLeaves)}

MerkleOfList ==
    /\ FirstCall
    /\ \E items \in LeafLists :
          Apply("merkle", <<items>>, "ok", clock, merkle(items))

\* items + [items[-1]], for the items of the call before
LastRepeated == PyList(Append(last.args[1][2], last.args[1][2][Len(last.args[1][2])]))

MerkleOfRepeated ==
    /\ made = 1
    /\ last.op = "merkle"
    /\ last.args[1][2] # <<>>
    /\ Apply("merkle", <<LastRepeated>>, "ok", clock, merkle(LastRepeated))

NextOdd ==
    \/ MerkleOfList
    \/ MerkleOfRepeated

SpecOdd == Init /\ [][NextOdd]_vars

(* detect_entity_overlap, on module dicts with up to MaxEntities shared entities *)
Named(name) == PyDict(<< <<"entity_name", PyStr(name)>> >>)

\* receipts e1 .. en
Numbered(n) ==
    PyList([i \in 1..n |-> PyDict(<< <<"entity_id", PyStr("e" \o ToString(i))>> >>)])

OverlapDicts ==
    { PyDict(<< <<"golf", PyList(<<Named("Saudi PIF")>>)>>,
                <<"gulf", PyList(<<Named("Saudi PIF")>>)>>,
                <<"license", PyList(<<Named("Different Entity")>>)>> >>),
      PyDict(<< <<"golf", PyList(<<Named("Saudi PIF"), Named("Acme")>>)>>,
                <<"gulf", PyList(<<Named("saudi pif"), Named("ACME")>>)>>,
                <<"border", PyList(<<Named("acme"), Named("Other")>>)>> >>),
      PyDict(<< <<"golf", PyList(<<RPayment, Named("Acme")>>)>>,
                <<"tariff", PyList(<<Named("Other")>>)>> >>),
      PyDict(<< <<"golf", Numbered(MaxEntities - 1)>>,
                <<"gulf", Numbered(MaxEntities - 1)>> >>),
      PyDict(<< <<"golf", Numbered(MaxEntities)>>,
                <<"gulf", Numbered(MaxEntities)>>,
                <<"license", PyList(<<PyDict(<< <<"fund_id",
                      PyStr("E" \o ToString(MaxEntities))>> >>)>>)>> >>),
      PyDict(<< <<"golf", PyList(<<>>)>> >>),
      PyDict(<<>>) }

DetectOverlap ==
    /\ CanCall
    /\ \E modules \in OverlapDicts, t \in Ticks(clock) :
        \E res \in {detect_entity_overlap(modules, clock + t, "ok")} :
           ApplyL("detect_entity_overlap", <<modules>>, "ok", clock + t, res,
                  modules, res.receipts)

NextOverlap == DetectOverlap

SpecOverlap == Init /\ [][NextOverlap]_vars

(* trace_money_flow, on receipts that name the traced entity in several ways *)
Paid(source, recipient, amount) ==
    PyDict(<< <<"receipt_type", PyStr("golf_payment")>>,
              <<"source_name", PyStr(source)>>,
              <<"recipient_name", PyStr(recipient)>>,
              <<"amount", PyInt(amount)>> >>)

\* a receipt whose amount is 0 or negative and which has a fee_amount as well
RFee(amount) ==
    PyDict(<< <<"receipt_type", PyStr("swf_fee")>>,
              <<"entity_name", PyStr("Saudi PIF")>>,
              <<"amount", PyInt(amount)>>,
              <<"fee_amount", PyInt(5)>> >>)

FlowTraces ==
    { <<PyStr("acme"), PyList(<<Paid("Saudi PIF", "Acme", 1000)>>)>>,
      <<PyStr("Acme"), PyList(<<RPayment, RInvestment>>)>>,
      <<PyStr("saudi pif"), PyList(<<RPayment, RFee(0), RFee(-3)>>)>>,
      <<PyStr("Saudi PIF"), PyList(<<Paid("Acme", "SAUDI PIF", 9), RPayment>>)>>,
      <<PyStr("acme"), PyList(<<Paid("Acme", "Acme Holdings", 10)>>)>>,
      <<PyStr("nobody"), PyList(<<RPayment>>)>>,
      <<PyStr("acme"), PyList(<<>>)>> }

TraceFlow ==
    /\ CanCall
    /\ \E trace \in FlowTraces, t \in Ticks(clock) :
        \E res \in {trace_money_flow(trace[1], trace[2], clock + t, "ok")} :
           ApplyL("trace_money_flow", trace, "ok", clock + t, res,
                  trace[2], res.receipts)

NextFlow == TraceFlow

SpecFlow == Init /\ [][NextFlow]_vars

(* the scoring functions of the border and golf modules *)
Evidence ==
    { PyDict(<< <<"type", PyStr("passport")>>, <<"strength", PyStr("strong")>> >>),
      PyDict(<< <<"military_service", PyBool(TRUE)>> >>),
      PyDict(<<>>) }

\* (deaths, detainee_days): no days, and rates of 0.0, 0.5, 1.0, 2.0 and 2.5,
\* which the float division gives exactly
DeathCounts ==
    {<<0, 0>>, <<0, 10000>>, <<1, 20000>>, <<1, 10000>>, <<2, 10000>>, <<1, 4000>>}

Acme == PyDict(<< <<"id", PyStr("e1")>>, <<"name", PyStr("Acme")>>,
                  <<"country", PyStr("USA")>> >>)

Ivan == PyDict(<< <<"id", PyStr("e2")>>, <<"name", PyStr("Ivan")>>,
                  <<"country", PyStr("Russia")>> >>)

Entities == {Acme, Ivan, PyDict(<<>>)}

SdnLists ==
    { None,
      PyList(<< PyDict(<< <<"id", PyStr("s1")>>, <<"name", PyStr("ivan")>>,
                          <<"country", PyStr("Russia")>> >>) >>),
      PyList(<< PyDict(<< <<"id", PyStr("s2")>>, <<"name", PyStr("Boris")>>,
                          <<"country", PyStr("russia")>> >>),
                PyDict(<< <<"id", PyStr("s3")>>, <<"name", PyStr("ACME")>> >>) >>) }

Transactions ==
    { PyDict(<< <<"id", PyStr("t1")>>, <<"amount", PyInt(100)>>,
                <<"sender", Acme>>, <<"recipient", Ivan>> >>),
      PyDict(<< <<"id", PyStr("t2")>>, <<"sender", Acme>> >>),
      PyDict(<<>>) }

FlagUsCitizen ==
    /\ CanCall
    /\ \E evidence \in Evidence, t \in Ticks(clock) :
          Apply("flag_us_citizen", <<PyStr("d1"), evidence>>, "ok", clock + t,
                flag_us_citizen(PyStr("d1"), evidence, clock + t, "ok"))

ComputeDeathRate ==
    /\ CanCall
    /\ \E n \in DeathCounts, t \in Ticks(clock) :
          Apply("compute_death_rate", <<PyStr("f1"), PyStr("2025"), n[1], n[2]>>, "ok",
                clock + t,
                compute_death_rate(PyStr("f1"), PyStr("2025"), n[1], n[2], clock + t, "ok"))

ScreenEntity ==
    /\ CanCall
    /\ \E entity \in Entities, sdn_list \in SdnLists, t \in Ticks(clock) :
          Apply("screen_entity", <<entity, sdn_list>>, "ok", clock + t,
                screen_entity(entity, sdn_list, clock + t, "ok"))

ScreenTransaction ==
    /\ CanCall
    /\ \E transaction \in Transactions, sdn_list \in SdnLists, t \in Ticks(clock) :
          Apply("screen_transaction", <<transaction, sdn_list>>, "ok", clock + t,
                screen_transaction(transaction, sdn_list, clock + t, "ok"))

NextDomain ==
    \/ FlagUsCitizen
    \/ ComputeDeathRate
    \/ ScreenEntity
    \/ ScreenTransaction

SpecDomain == Init /\ [][NextDomain]_vars

(* the anomaly and stop-rule functions *)
StopruleHashMismatch == StopruleHashMismatchOn(HashArgs, SinkStates)

StopruleUnverifiedClaim == StopruleUnverifiedClaimOn(Claims, SinkStates)

EmitAnomaly == EmitAnomalyOn(AnomalyArgs, SinkStates)

NextSignals ==
    \/ StopruleHashMismatch
    \/ StopruleUnverifiedClaim
    \/ EmitAnomaly

SpecSignals == Init /\ [][NextSignals]_vars

(* the correlator, on well-formed and malformed receipt lists *)
RunCycle == RunCycleOn(CycleRuns, {"ok"})

Sense == SenseOn(SenseLists)

Analyze == AnalyzeOn(SenseLists)

HarvestViolations == HarvestViolationsOn(HarvestLists, {None}, {"ok"})

DetectEntityOverlap == DetectEntityOverlapOn(ModuleDicts, {"ok"})

TraceMoneyFlow == TraceMoneyFlowOn(Traces, {"ok"})

ComputeCentrality == ComputeCentralityOn(Centralities, {"ok"})

DetectPifPattern == DetectPifPatternOn(PifLists, {"ok"})

NextLoop ==
    \/ RunCycle
    \/ Sense
    \/ Analyze
    \/ HarvestViolations
    \/ DetectEntityOverlap
    \/ TraceMoneyFlow
    \/ ComputeCentrality
    \/ DetectPifPattern

SpecLoop == Init /\ [][NextLoop]_vars

(* aggregate_pif_exposure, after other receipts were emitted and patterns *)
(* computed, on every state of the sink                                   *)
AggregatePifExposure ==
    /\ CanCall
    /\ \E wok \in SinkStates, t \in Ticks(clock) :
        Apply("aggregate_pif_exposure", <<>>, wok, clock + t,
              aggregate_pif_exposure(clock + t, wok))

\* an aggregate written by another caller, which reports no exposure
OtherAggregates ==
    { << <<"domain_count", PyInt(0)>>, <<"cross_domain_verified", PyBool(FALSE)>> >>,
      << <<"by_domain", PyDict(<<>>)>> >> }

EmitOtherAggregate ==
    /\ CanCall
    /\ \E data \in OtherAggregates, wok \in SinkStates, t \in Ticks(clock) :
        Apply("emit_receipt", <<PyStr("pif_aggregate"), data>>, wok, clock + t,
              emit_receipt(PyStr("pif_aggregate"), data, clock + t, wok))

NextPif ==
    \/ AggregatePifExposure
    \/ EmitOtherAggregate
    \/ DetectPifPattern

SpecPif == Init /\ [][NextPif]_vars

(* sense, analyze and run_cycle, once each on every list of at most      *)
(* MaxReceipts receipts of the kinds below                               *)
Typed(receipt_type, fields) ==
    PyDict(<< <<"receipt_type", PyStr(receipt_type)>> >> \o fields)

\* receipts of every row of the keyword table, of two rows at once, with
\* capitals, of no row and without a receipt_type; some flagged
GroupReceipts ==
    { Typed("tariff_ingest", << <<"violation", PyBool(TRUE)>> >>),
      Typed("Border_Tariff_Refund", << <<"excessive", PyInt(1)>> >>),
      Typed("detention", << <<"exceeds_threshold", PyBool(TRUE)>>,
                            <<"violation", PyBool(FALSE)>> >>),
      Typed("swf_investment", << <<"favoritism_detected", PyStr("yes")>> >>),
      Typed("liv_license", << <<"is_emolument", PyBool(TRUE)>> >>),
      Typed("partner_ownership", << <<"excessive", PyBool(TRUE)>> >>),
      Typed("pif_cross_reference", << <<"violation", PyBool(TRUE)>> >>),
      Typed("anomaly", << <<"violation", PyBool(TRUE)>> >>),
      PyDict(<< <<"excessive", PyBool(TRUE)>> >>),
      RNullType }

GroupLists == {PyList(rs) : rs \in SeqsUpTo(GroupReceipts, MaxReceipts)}

SenseGrouped ==
    /\ FirstCall
    /\ \E receipts \in GroupLists :
        \E res \in {Call("sense", <<receipts>>, clock, "ok")} :
           ApplyL("sense", <<receipts>>, "ok", clock, res, receipts, res.receipts)

NextSense == SenseGrouped

SpecSense == Init /\ [][NextSense]_vars

\* a flagged receipt of each of the five domains, a receipt of a domain
\* that is not flagged, and a flagged anomaly
FlaggedReceipts ==
    { Typed("tariff_ingest", << <<"violation", PyBool(TRUE)>> >>),
      Typed("detention", << <<"exceeds_threshold", PyBool(TRUE)>>,
                            <<"violation", PyBool(FALSE)>> >>),
      Typed("swf_investment", << <<"favoritism_detected", PyStr("yes")>> >>),
      Typed("golf_emolument", << <<"excessive", PyInt(1)>> >>),
      Typed("partner_ownership", << <<"excessive", PyBool(TRUE)>> >>),
      Typed("liv_license", << <<"is_emolument", PyBool(TRUE)>> >>),
      Typed("anomaly", << <<"violation", PyBool(TRUE)>> >>) }

FlaggedLists == {PyList(rs) : rs \in SeqsUpTo(FlaggedReceipts, MaxReceipts)}

\* analyze on the state sense returns for a list
AnalyzeGrouped ==
    /\ FirstCall
    /\ \E receipts \in FlaggedLists :
        /\ sense(Dicts(receipts)).outcome = "ok"
        /\ \E res \in {Call("analyze", <<receipts>>, clock, "ok")} :
              ApplyL("analyze", <<receipts>>, "ok", clock, res, receipts, res.receipts)

RunCycleGrouped ==
    /\ FirstCall
    /\ \E receipts \in FlaggedLists :
        \E res \in {run_cycle(receipts, None, clock, 5, "ok")} :
           ApplyL("run_cycle", <<receipts, None>>, "ok", clock, res,
                  receipts, res.receipts)

NextAnalyze ==
    \/ AnalyzeGrouped
    \/ RunCycleGrouped

SpecAnalyze == Init /\ [][NextAnalyze]_vars

\* a receipt for each way of being a violation, one that is a violation in
\* two ways, and one whose flags are all falsy
HarvestReceipts ==
    { Typed("anomaly", <<>>),
      Typed("tariff_ingest", << <<"violation", PyBool(TRUE)>> >>),
      Typed("detention", << <<"is_violation", PyInt(1)>> >>),
      Typed("swf_fee", << <<"exceeds_threshold", PyBool(TRUE)>> >>),
      Typed("partner_ownership", << <<"excessive", PyBool(TRUE)>> >>),
      Typed("Exemption_Review", << <<"favoritism_detected", PyStr("yes")>> >>),
      Typed("liv_event", << <<"is_emolument", PyBool(TRUE)>> >>),
      Typed("fara_filing", << <<"fara_violation", PyBool(TRUE)>> >>),
      Typed("pif_cross_reference", << <<"violation", PyBool(TRUE)>>,
                                      <<"excessive", PyInt(1)>> >>),
      Typed("tariff_refund", << <<"violation", PyBool(FALSE)>>,
                                <<"excessive", PyInt(0)>>,
                                <<"is_emolument", PyStr("")>> >>) }

HarvestedLists == {PyList(rs) : rs \in SeqsUpTo(HarvestReceipts, MaxReceipts)}

HarvestGrouped ==
    /\ FirstCall
    /\ \E receipts \in HarvestedLists :
        \E res \in {harvest_violations(receipts, None, clock, "ok")} :
           ApplyL("harvest_violations", <<receipts, None>>, "ok", clock, res,
                  receipts, res.receipts)

NextHarvest == HarvestGrouped

SpecHarvest == Init /\ [][NextHarvest]_vars

\* violations of three kinds in every order: a type with a key of the map,
\* a type with capitals and two keys of the map, and no receipt_type
MixedViolations ==
    { Typed("favoritism_detection", <<>>),
      Typed("Excessive_Fee_Emolument", << <<"excessive", PyBool(TRUE)>> >>),
      PyDict(<< <<"violation", PyBool(TRUE)>> >>) }

\* a type for every key of the map, a type with two keys, types with none
\* and a receipt_type that is no str
RepeatedViolations ==
    { Typed("tariff_favoritism_detection", <<>>), Typed("excessive_fee", <<>>),
      Typed("fara_violation_notice", <<>>), Typed("emolument_assessment", <<>>),
      Typed("citizen_flag", <<>>), Typed("death_rate_alert", <<>>),
      Typed("Opacity_Score", <<>>), Typed("opacity_emolument", <<>>),
      Typed("tariff_ingest", <<>>), Typed("unknown", <<>>), RNullType }

Repeat(x, n) == [i \in 1..n |-> x]

ViolationLists ==
    {PyList(rs) : rs \in SeqsUpTo(MixedViolations, MaxViolations)}
    \cup {PyList(Repeat(r, n)) : r \in RepeatedViolations, n \in 1..MaxViolations}
    \cup {PyList(Repeat(r, n) \o <<Typed("unknown", <<>>)>>) :
             r \in MixedViolations, n \in 1..(MaxViolations - 1)}

ProposeRemediation ==
    /\ FirstCall
    /\ \E violations \in ViolationLists :
        \E res \in {propose_remediation(violations, clock, "ok")} :
           ApplyL("propose_remediation", <<violations>>, "ok", clock, res,
                  violations, res.receipts)

NextPropose == ProposeRemediation

SpecPropose == Init /\ [][NextPropose]_vars

\* receipts that name a known entity in two domains, twice in one domain
\* and in no domain, with values that sum to the threshold and past it, and
\* a receipt that is not related to the PIF
PatternReceipts ==
    { Typed("swf_investment", << <<"entity_name", PyStr("LIV Golf")>>,
                                 <<"amount", PyInt(500000000)>> >>),
      Typed("fara_filing", << <<"entity_name", PyStr("liv golf")>>,
                              <<"amount", PyInt(1)>> >>),
      Typed("golf_event", << <<"source_name", PyStr("LIV Golf")>>,
                             <<"amount", PyInt(0)>>,
                             <<"pif_investment", PyInt(500000000)>> >>),
      Typed("payment", << <<"recipient_name", PyStr("Dar Global")>>,
                          <<"amount", PyInt(1)>> >>),
      Typed("license_deal", << <<"partner_name", PyStr("Dar Global")>> >>),
      Typed("tariff_ingest", << <<"entity_name", PyStr("Acme")>>,
                                <<"amount", PyInt(500000000)>> >>) }

PatternLists == {PyList(rs) : rs \in SeqsUpTo(PatternReceipts, MaxReceipts)}

DetectPifGrouped ==
    /\ FirstCall
    /\ \E receipts \in PatternLists :
        \E res \in {detect_pif_pattern(receipts, clock, "ok")} :
           ApplyL("detect_pif_pattern", <<receipts>>, "ok", clock, res,
                  receipts, res.receipts)

NextPattern == DetectPifGrouped

SpecPattern == Init /\ [][NextPattern]_vars

(* a receipt of a domain function, and then sense, analyze and run_cycle  *)
(* on the list that holds it                                              *)
Outcome(applicant, outcome) ==
    PyDict(<< <<"applicant", PyStr(applicant)>>, <<"outcome", PyStr(outcome)>> >>)

OutcomeLists ==
    {PyList(os) : os \in SeqsUpTo({Outcome("Acme", "approved"), Outcome("Acme", "denied"),
                                   Outcome("Bolt", "approved"), Outcome("Bolt", "denied")},
                                  MaxOutcomes)}

LobbyingData ==
    { PyList(<<>>), PyList(<< PyDict(<< <<"client", PyStr("ACME")>> >>) >>),
      PyList(<< PyDict(<< <<"client", PyStr("")>> >>),
                PyDict(<< <<"client", PyStr("Bolt")>> >>) >>) }

Payments ==
    {PyDict(<< <<"id", PyStr("p1")>>, <<"amount", PyInt(a)>> >>) : a \in {0, 9999, 10000}}
    \cup {PyDict(<<>>)}

Sources ==
    { PyDict(<< <<"name", PyStr("Saudi PIF")>>, <<"country", PyStr("Saudi Arabia")>>,
                <<"is_sovereign", PyBool(TRUE)>> >>),
      PyDict(<< <<"name", PyStr("Acme")>>, <<"country", PyStr("Saudi Arabia")>> >>),
      PyDict(<< <<"name", PyStr("GSA")>>, <<"country", PyStr("USA")>>,
                <<"is_government", PyBool(TRUE)>> >>),
      PyDict(<< <<"is_state_owned", PyBool(TRUE)>> >>) }

DomainFunctions == {"detect_favoritism", "compute_fee_ratio", "assess_emolument"}

DetectFavoritism ==
    /\ FirstCall
    /\ \E outcomes \in OutcomeLists, lobbying_data \in LobbyingData :
          Apply("detect_favoritism", <<outcomes, lobbying_data>>, "ok", clock,
                detect_favoritism(outcomes, lobbying_data, clock, "ok"))

ComputeFeeRatio ==
    /\ FirstCall
    /\ \E fees \in {0, 5, 157}, returns \in {-10, 0, 1, 10, 100} :
          Apply("compute_fee_ratio", <<fees, returns>>, "ok", clock,
                compute_fee_ratio(fees, returns, clock, "ok"))

AssessEmolument ==
    /\ FirstCall
    /\ \E payment \in Payments, source \in Sources :
          Apply("assess_emolument", <<payment, source>>, "ok", clock,
                assess_emolument(payment, source, clock, "ok"))

\* the receipt a domain function has just returned, as a list
Produced == PyList(<<PyDict(last.ret)>>)

IsProduced ==
    /\ made = 1
    /\ last.op \in DomainFunctions
    /\ last.outcome = "ok"

AnalyzeProduced ==
    /\ IsProduced
    /\ \E res \in {Call("analyze", <<Produced>>, clock, "ok")} :
          ApplyL("analyze", <<Produced>>, "ok", clock, res, Produced, res.receipts)

RunCycleProduced ==
    /\ IsProduced
    /\ \E res \in {run_cycle(Produced, None, clock, 5, "ok")} :
          ApplyL("run_cycle", <<Produced, None>>, "ok", clock, res, Produced, res.receipts)

NextProduced ==
    \/ DetectFavoritism
    \/ ComputeFeeRatio
    \/ AssessEmolument
    \/ AnalyzeProduced
    \/ RunCycleProduced

SpecProduced == Init /\ [][NextProduced]_vars

(* a driver that runs cycles and harvests on one list and appends every   *)
(* receipt it is returned to the list                                     *)
DomainLists ==
    { PyList(<<>>),
      PyList(<< Typed("tariff_ingest", << <<"violation", PyBool(TRUE)>> >>) >>),
      PyList(<< Typed("anomaly", <<>>),
                Typed("liv_event", << <<"is_emolument", PyBool(TRUE)>> >>) >>),
      PyList(<< Typed("detention", << <<"exceeds_threshold", PyBool(TRUE)>> >>),
                Typed("anomaly", << <<"violation", PyBool(TRUE)>> >>),
                Typed("swf_investment", <<>>) >>),
      PyList(<< Typed("loop_cycle", << <<"priority_violations", PyInt(2)>> >>),
                Typed("partner_ownership", << <<"excessive", PyBool(TRUE)>> >>) >>) }

\* the list of the driver: a list of domain receipts at first, and then the
\* list of the call before with the receipt it returned
GrownLists ==
    IF made = 0 THEN DomainLists
    ELSE IF last.outcome = "ok" /\ last.op \in {"run_cycle", "harvest_violations"}
    THEN {PyList(Append(last.after[2], PyDict(last.ret)))}
    ELSE {}

FeedCycle ==
    /\ made < MaxFeedback
    /\ \E receipts \in GrownLists :
        \E res \in {run_cycle(receipts, None, clock, 5, "ok")} :
           ApplyL("run_cycle", <<receipts, None>>, "ok", clock, res, receipts, res.receipts)

FeedHarvest ==
    /\ made < MaxFeedback
    /\ \E receipts \in GrownLists :
        \E res \in {harvest_violations(receipts, None, clock, "ok")} :
           ApplyL("harvest_violations", <<receipts, None>>, "ok", clock, res,
                  receipts, res.receipts)

NextFeedback ==
    \/ FeedCycle
    \/ FeedHarvest

SpecFeedback == Init /\ [][NextFeedback]_vars

(* the four functions that infer a domain, on one receipt_type            *)
Keywords ==
    << "tariff", "exemption", "refund", "detention", "border", "citizenship",
       "swf", "fara", "investment", "fee", "golf", "liv", "emolument",
       "license", "ownership", "partner", "pif", "cross", "loop" >>

\* a keyword, two keywords, types the domain modules emit, a type with
\* capitals and a type with no keyword
InferredTypes ==
    {Keywords[i] : i \in DOMAIN Keywords}
    \cup {Keywords[i] \o "_" \o Keywords[j] : i, j \in DOMAIN Keywords}
    \cup {"license_fee_payment", "favoritism_detection", "fee_ratio",
          "emolument_assessment", "citizen_flag", "Golf_Payment", "anomaly"}

\* what each function returns for the receipt_type of a receipt; harvest
\* and the PIF tracker lower-case it before they look
infer_domains(receipt_type) ==
    << <<"cycle", PyStr(infer_module(receipt_type))>>,
       <<"harvest", PyStr(infer_module_from_receipt(Lower(receipt_type)))>>,
       <<"cross_domain", PyStr(cross_infer_module(receipt_type))>>,
       <<"pif_tracker", PyStr(infer_domain(Lower(receipt_type)))>> >>

InferDomainsOfType ==
    /\ FirstCall
    /\ \E receipt_type \in InferredTypes :
          Apply("infer_domains", <<PyStr(receipt_type)>>, "ok", clock,
                Pure("ok", infer_domains(receipt_type)))

TrackFeePayment ==
    /\ FirstCall
    /\ \E payment \in Payments :
          Apply("track_fee_payment", <<PyStr("L1"), payment>>, "ok", clock,
                track_fee_payment(PyStr("L1"), payment, clock, "ok"))

\* the domains of the receipt track_fee_payment has just returned
InferDomainsOfReceipt ==
    /\ made = 1
    /\ last.op = "track_fee_payment"
    /\ last.outcome = "ok"
    /\ \E receipt_type \in {Get(last.ret, "receipt_type", None)} :
          Apply("infer_domains", <<receipt_type>>, "ok", clock,
                Pure("ok", infer_domains(Text(receipt_type))))

NextInfer ==
    \/ InferDomainsOfType
    \/ TrackFeePayment
    \/ InferDomainsOfReceipt

SpecInfer == Init /\ [][NextInfer]_vars

(* the simulator: run_simulation cycle by cycle, and check_pass_criteria *)
(* on lists of violations that hold StopRule entries                     *)
\* run_simulation begins: the lists are empty
StartSimulation ==
    /\ sim.status # "running"
    /\ \E config \in SimConfigs :
        sim' = [NoSimulation EXCEPT !.status = "running", !.config = config]
    /\ UNCHANGED <<sink, calls, clock, made, last, history>>

\* one pass of the loop of run_simulation
SimulateCycle ==
    /\ sim.status = "running"
    /\ sim.cycle < sim.config.n_cycles
    /\ \E d \in Draws(sim.config) :
        \E c \in {sim_run_cycle(sim.config, sim.cycle, d)} :
            sim' = [sim EXCEPT !.cycle = sim.cycle + 1,
                               !.receipts = sim.receipts \o c.receipts,
                               !.violations = sim.violations \o c.violations,
                               !.anomalies = sim.anomalies \o c.anomalies]
    /\ UNCHANGED <<sink, calls, clock, made, last, history>>

\* run_simulation after the loop: the PIF domains and the pass criteria
FinishSimulation ==
    /\ sim.status = "running"
    /\ ~(sim.cycle < sim.config.n_cycles)
    /\ \E r \in {sim_result(sim.config, sim.receipts, sim.violations, sim.anomalies)} :
        sim' = [sim EXCEPT !.status = "done",
                           !.pif_domain_count = r.pif_domain_count,
                           !.passed = r.passed]
    /\ UNCHANGED <<sink, calls, clock, made, last, history>>

\* check_pass_criteria called on its own, outside a run
CheckPassCriteria ==
    /\ sim.status \in {"idle", "checked"}
    /\ \E scenario \in Scenarios \cup {"REPLAY"}, receipts \in CheckedReceipts,
          violations \in CheckedViolations, pif_domains \in CheckedDomains :
        sim' = [NoSimulation EXCEPT
                   !.status = "checked",
                   !.config = SimConfig(0, <<>>, scenario, <<>>),
                   !.receipts = receipts,
                   !.violations = violations,
                   !.pif_domain_count = Cardinality(pif_domains),
                   !.passed = check_pass_criteria(scenario, receipts, violations,
                                                  pif_domains)]
    /\ UNCHANGED <<sink, calls, clock, made, last, history>>

NextSim ==
    \/ StartSimulation
    \/ SimulateCycle
    \/ FinishSimulation
    \/ CheckPassCriteria

SpecSim == Init /\ [][NextSim]_vars

(* calls repeated on the same list, with other calls in between *)
RepeatRuns ==
    {<<PyList(<<RTariff, RDetention>>), None, 5>>,
     <<PyList(<<RAnomaly, RViolation, RTariff>>), None, 5>>}

RepeatLists ==
    {PyList(<<RAnomaly, RViolation, RTariff>>), PyList(<<RPayment, RInvestment>>)}

\* (function, arguments) of the calls made in between
BetweenCalls ==
    {<<"emit_receipt", <<PyStr("x"), << <<"k", PyStr("v")>> >> >> >>,
     <<"stoprule_hash_mismatch", <<PyStr("abc"), PyStr("abc")>> >>,
     <<"trace_money_flow", <<PyStr("Acme"), PyList(<<RPayment, RInvestment>>)>> >>}

CanRepeat == made < MaxRepeatCalls

RepeatRunCycle ==
    /\ CanRepeat
    /\ \E run \in RepeatRuns, t \in Ticks(clock) :
        \E res \in {Result("run_cycle", run, clock + t, "ok")} :
           ApplyL("run_cycle", <<run[1], run[2]>>, "ok", clock + t, res,
                  run[1], res.receipts)

RepeatHarvestViolations ==
    /\ CanRepeat
    /\ \E receipts \in RepeatLists, t \in Ticks(clock) :
        \E res \in {Result("harvest_violations", <<receipts, None>>, clock + t, "ok")} :
           ApplyL("harvest_violations", <<receipts, None>>, "ok", clock + t, res,
                  receipts, res.receipts)

CallBetween ==
    /\ CanRepeat
    /\ \E c \in BetweenCalls, t \in Ticks(clock) :
        Apply(c[1], c[2], "ok", clock + t, Result(c[1], c[2], clock + t, "ok"))

NextRepeat ==
    \/ RepeatRunCycle
    \/ RepeatHarvestViolations
    \/ CallBetween

SpecRepeat == Init /\ [][NextRepeat]_vars

(* the whole interface, on a few arguments and every state of the sink *)
AnyEmitReceipt == EmitReceiptOn({PyStr("x")}, FewPayloads, SinkStates)

AnyStopruleHashMismatch == StopruleHashMismatchOn({PyStr("abc")}, SinkStates)

AnyStopruleUnverifiedClaim ==
    StopruleUnverifiedClaimOn({PyDict(<< <<"type", PyStr("test")>> >>)}, SinkStates)

AnyEmitAnomaly ==
    EmitAnomalyOn({<<PyStr("death_rate"), PyInt(0), PyInt(2), PyStr("drift"), PyStr("alert")>>},
                  SinkStates)

AnyRunCycle ==
    RunCycleOn({<<PyList(<<RTariff, RDetention>>), None, 5>>,
                <<PyList(<<RNullType>>), None, 5>>}, SinkStates)

AnySense == SenseOn({PyList(<<RTariff, RDetention>>)})

AnyAnalyze == AnalyzeOn({PyList(<<RAnomaly, RViolation, RTariff>>)})

AnyHarvestViolations ==
    HarvestViolationsOn({PyList(<<RAnomaly, RViolation, RTariff>>)}, {None}, SinkStates)

AnyDetectEntityOverlap ==
    DetectEntityOverlapOn(
        {PyDict(<< <<"golf", PyList(<<RPayment>>)>>, <<"gulf", PyList(<<RInvestment>>)>> >>)},
        SinkStates)

AnyTraceMoneyFlow ==
    TraceMoneyFlowOn({<<PyStr("Acme"), PyList(<<RPayment, RInvestment>>)>>}, SinkStates)

AnyComputeCentrality ==
    ComputeCentralityOn(
        {<<PyList(<<PyStr("Saudi PIF"), PyStr("acme")>>), PyList(<<RPayment, RInvestment>>)>>},
        SinkStates)

AnyDetectPifPattern == DetectPifPatternOn({PyList(<<RPayment, RInvestment>>)}, SinkStates)

Next ==
    \/ AnyEmitReceipt
    \/ AnyStopruleHashMismatch
    \/ AnyStopruleUnverifiedClaim
    \/ AnyEmitAnomaly
    \/ AnyRunCycle
    \/ AnySense
    \/ AnyAnalyze
    \/ AnyHarvestViolations
    \/ AnyDetectEntityOverlap
    \/ AnyTraceMoneyFlow
    \/ AnyComputeCentrality
    \/ AnyDetectPifPattern

Spec == Init /\ [][Next]_vars

(* ------------------------------------------------------------------ *)
(* Claims                                                              *)
(* ------------------------------------------------------------------ *)
Std4 == {"receipt_type", "ts", "tenant_id", "payload_hash"}

Std3 == {"receipt_type", "ts", "payload_hash"}

HasColon(v) ==
    CASE v[1] = "sym" -> \E i \in DOMAIN v[2] : v[2][i] = <<"lit", ":">>
      [] v[1] = "str" -> Contains(":", v[2])
      [] OTHER -> FALSE

StopRuleOps == {"stoprule_hash_mismatch", "stoprule_unverified_claim"}

\* the functions of the correlator that take the caller's receipts
CorrelatorOps ==
    {"run_cycle", "sense", "analyze", "harvest_violations", "detect_entity_overlap",
     "trace_money_flow", "compute_centrality", "detect_pif_pattern"}

\* those of them that emit a receipt
EmittingCorrelatorOps == CorrelatorOps \ {"sense", "analyze"}

\* C1: whatever the calls and the paths they take, the sink holds one line per
\* completed emit_receipt call, in call order, each the JSON text of the record
\* that call returned; and no call changes or removes an earlier line.
C1_OneLinePerCompletedCall ==
    /\ [](/\ Len(sink) = Len(calls)
          /\ \A i \in DOMAIN calls : sink[i] = json_dumps(PyDict(calls[i].ret), FALSE))
    /\ [][/\ Len(sink') >= Len(sink)
          /\ SubSeq(sink', 1, Len(sink)) = sink]_vars

\* C1 witness: the sink holds two lines, one written through the correlator
\* and one through a stop-rule function.
C1_Witness ==
    /\ Len(sink) = 2
    /\ calls[1].receipt_type = PyStr("loop_cycle")
    /\ calls[2].receipt_type = PyStr("anomaly")
    /\ last.outcome = "StopRule"

\* C2 (as claimed): with a writable sink, each stop-rule function, whatever
\* its argument, appends exactly one anomaly line (action halt for the hash
\* mismatch, escalate for the unverified claim) and then raises StopRule, and
\* nothing else.
C2_StopRuleAlwaysSignals ==
    (last.op \in StopRuleOps /\ last.wok = "ok") =>
        /\ last.outcome = "StopRule"
        /\ last.lines = 1
        /\ calls # <<>>
        /\ calls[Len(calls)].receipt_type = PyStr("anomaly")
        /\ Get(calls[Len(calls)].data, "action", None) =
               (IF last.op = "stoprule_hash_mismatch" THEN PyStr("halt")
                ELSE PyStr("escalate"))
        /\ sink[Len(sink)] = json_dumps(PyDict(calls[Len(calls)].ret), FALSE)

\* C4 (as claimed): the payload_hash of every returned receipt is dual_hash of
\* the sorted-key JSON of the receipt without its four standard fields.
C4_HashOfReceiptWithoutStandardFields ==
    \A i \in DOMAIN calls :
        Get(calls[i].ret, "payload_hash", None) =
            dual_hash(json_dumps(PyDict(Remove(calls[i].ret, Std4)), TRUE))

SameItems(d, e) ==
    /\ Keys(d) = Keys(e)
    /\ \A k \in Keys(d) : Get(d, k, None) = Get(e, k, None)

\* C5 (as claimed): payload_hash is dual_hash of the sorted-key JSON of the
\* mapping the caller passed; payloads with the same items in another order
\* get equal hashes; a payload without tenant_id and the same payload with
\* tenant_id set to the default tenant get different hashes and the same
\* tenant_id.
C5_HashBeforeDefaultTenant ==
    /\ \A i \in DOMAIN calls :
           Get(calls[i].ret, "payload_hash", None) =
               dual_hash(json_dumps(PyDict(calls[i].data), TRUE))
    /\ \A i, j \in DOMAIN calls :
           SameItems(calls[i].data, calls[j].data) =>
               Get(calls[i].ret, "payload_hash", None) =
                   Get(calls[j].ret, "payload_hash", None)
    /\ \A i, j \in DOMAIN calls :
           (/\ ~Has(calls[i].data, "tenant_id")
            /\ SameItems(Put(calls[i].data, "tenant_id", PyStr(TENANT_ID)),
                         calls[j].data)) =>
               /\ Get(calls[i].ret, "payload_hash", None) #
                      Get(calls[j].ret, "payload_hash", None)
               /\ Get(calls[i].ret, "tenant_id", None) =
                      Get(calls[j].ret, "tenant_id", None)

\* C6 (as claimed): for every receipt_type T and payload, the returned record
\* has receipt_type T, the emission timestamp as ts, a payload_hash with a
\* colon, and the payload's tenant_id or else the global tenant.
C6_EnvelopeFields ==
    \A i \in DOMAIN calls :
        /\ Get(calls[i].ret, "receipt_type", None) = calls[i].receipt_type
        /\ Get(calls[i].ret, "ts", None) = PyStr(isoformat(calls[i].now))
        /\ isoformat(calls[i].now) # ""
        /\ HasColon(Get(calls[i].ret, "payload_hash", None))
        /\ Get(calls[i].ret, "tenant_id", None) =
               Get(calls[i].data, "tenant_id", PyStr(TENANT_ID))

\* C7: a call made while the sink cannot be written neither returns a record
\* nor ends in StopRule; the failure reaches the caller of the outermost
\* function, nothing is written and the write is not tried again.
C7_WriteFailurePropagates ==
    (last.op # "none" /\ last.wok # "ok") =>
        /\ last.outcome \notin {"ok", "StopRule"}
        /\ last.ret = NoRet
        /\ last.lines = 0
        /\ Len(sink) = Len(calls)

\* C7 witness: run_cycle was called on well-formed receipts while the next
\* write fails, and the caller got OSError.
C7_Witness ==
    /\ last.op = "run_cycle"
    /\ last.wok = "fail_once"
    /\ last.outcome = "OSError"

C9_NeverRaisesOnMalformed ==
    (last.op \in EmittingCorrelatorOps /\ last.wok = "ok") =>
        /\ last.outcome = "ok"
        /\ last.lines = 1

\* C10: a run_cycle that completes has appended one line, the loop_cycle
\* receipt it returns, whose receipts_processed is the length of the list
\* supplied; with a writable sink run_cycle([]) and run_cycle() complete and
\* report 0.
C10_OneCycleReceipt ==
    /\ (last.op = "run_cycle" /\ last.outcome = "ok") =>
           /\ last.lines = 1
           /\ sink[Len(sink)] = json_dumps(PyDict(last.ret), FALSE)
           /\ Get(last.ret, "receipt_type", None) = PyStr("loop_cycle")
           /\ Get(last.ret, "receipts_processed", None) =
                  PyInt(IF last.args[1] = None THEN 0 ELSE Len(last.args[1][2]))
    /\ (/\ last.op = "run_cycle"
        /\ last.wok = "ok"
        /\ last.args[1] \in {None, PyList(<<>>)}) =>
           /\ last.outcome = "ok"
           /\ Get(last.ret, "receipts_processed", None) = PyInt(0)

\* C10 witness: run_cycle completed on a list of three receipts, after an
\* earlier call had written a line.
C10_Witness ==
    /\ last.op = "run_cycle"
    /\ last.outcome = "ok"
    /\ Get(last.ret, "receipts_processed", None) = PyInt(3)
    /\ Len(sink) = 2

\* the counts and groupings a loop_cycle or harvest receipt reports
Counts(op, ret) ==
    IF op = "run_cycle"
    THEN <<Get(ret, "receipts_processed", None), Get(ret, "modules_active", None),
           Get(ret, "anomalies_detected", None), Get(ret, "priority_violations", None)>>
    ELSE <<Get(ret, "total_violations", None), Get(ret, "by_module", None),
           Get(ret, "violations", None)>>

Above(level, i) ==
    dual_hash(Text(level[2 * i - 1])
              \o Text(level[IF 2 * i <= Len(level) THEN 2 * i ELSE Len(level)]))

RECURSIVE RootOf(_)
RootOf(level) ==
    IF Len(level) = 1 THEN level[1]
    ELSE RootOf([i \in 1..((Len(level) + 1) \div 2) |-> Above(level, i)])

LeafOf(item) == dual_hash(json_dumps(item, TRUE))

\* C12: merkle returns, for an empty list, the dual hash of "empty", and for
\* a list of items that have a JSON text the root of the tree whose leaves are
\* the dual hashes of the items' sorted-key JSON, each level pairing adjacent
\* hashes (the last one with itself when the level is odd), down to one hash;
\* the root of a single item is its leaf hash.  It writes nothing.
C12_MerkleRoot ==
    (last.op = "merkle" /\ Serializable(last.args[1])) =>
        /\ last.outcome = "ok"
        /\ last.lines = 0
        /\ last.ret = (IF last.args[1] = None \/ Len(last.args[1][2]) = 0
                       THEN dual_hash("empty")
                       ELSE RootOf([i \in DOMAIN last.args[1][2] |->
                                        LeafOf(last.args[1][2][i])]))
        /\ (last.args[1] # None /\ Len(last.args[1][2]) = 1)
              => last.ret = LeafOf(last.args[1][2][1])

\* a list of five items: the first level and the second are both odd
C12_Witness ==
    /\ last.op = "merkle"
    /\ last.args = <<NumberedItems(5)>>
    /\ last.outcome = "ok"
    /\ last.ret = dual_hash(
          Text(dual_hash(
              Text(dual_hash(Text(LeafOf(PyInt(1))) \o Text(LeafOf(PyInt(2)))))
              \o Text(dual_hash(Text(LeafOf(PyInt(3))) \o Text(LeafOf(PyInt(4)))))))
          \o Text(dual_hash(
              Text(dual_hash(Text(LeafOf(PyInt(5))) \o Text(LeafOf(PyInt(5)))))
              \o Text(dual_hash(Text(LeafOf(PyInt(5))) \o Text(LeafOf(PyInt(5))))))))

Classifications ==
    {PyStr("drift"), PyStr("degradation"), PyStr("violation"), PyStr("deviation"),
     PyStr("anti_pattern")}

AnomalyActions == {PyStr("alert"), PyStr("escalate"), PyStr("halt"), PyStr("auto_fix")}

\* C13 (as claimed): every anomaly receipt emitted by emit_anomaly or by a
\* stop-rule function carries metric, baseline, delta, classification and
\* action, the classification and the action taken from their fixed sets.
C13_AnomalyShape ==
    \A i \in DOMAIN calls :
        calls[i].receipt_type = PyStr("anomaly") =>
            /\ {"metric", "baseline", "delta", "classification", "action"}
                   \subseteq Keys(calls[i].ret)
            /\ Get(calls[i].ret, "classification", None) \in Classifications
            /\ Get(calls[i].ret, "action", None) \in AnomalyActions

DomainOps == {"flag_us_citizen", "compute_death_rate", "screen_entity", "screen_transaction"}

\* the lines the last call appended
LastLines == SubSeq(calls, Len(calls) - last.lines + 1, Len(calls))

\* C14 (as claimed): one invocation of a domain scoring function appends
\* exactly one line, its own receipt, or exactly two, an anomaly receipt
\* first and its own receipt second.
C14_OneOrTwoLines ==
    (last.op \in DomainOps /\ last.outcome = "ok") =>
        /\ last.lines \in {1, 2}
        /\ LastLines[Len(LastLines)].ret = last.ret
        /\ LastLines[Len(LastLines)].receipt_type # PyStr("anomaly")
        /\ last.lines = 2 => LastLines[1].receipt_type = PyStr("anomaly")

\* the identifiers of a receipt, lower-cased
Identifiers(r) ==
    {Lower(str(r[i][2])) : i \in {j \in DOMAIN r : InSeq(r[j][1], entity_fields)
                                                    /\ Truthy(r[j][2])}}

\* the identifiers of each module of the dict
ModuleIdentifiers(modules) ==
    [n \in DOMAIN modules |->
        UNION {Identifiers(modules[n][2][2][i][2]) : i \in DOMAIN modules[n][2][2]}]

\* the names of the modules that hold each identifier
ModulesOf(modules) ==
    With(ModuleIdentifiers(modules), LAMBDA ids :
        [e \in UNION {ids[n] : n \in DOMAIN ids} |->
            {modules[n][1] : n \in {k \in DOMAIN ids : e \in ids[k]}}])

\* what the claim says of the receipt ret and its list overlaps, the modules
\* of each identifier being mods
OverlapAsClaimed(mods, ret, overlaps) ==
    \* ov: the identifiers found in two modules or more; listed: those of overlaps
    With({e \in DOMAIN mods : Cardinality(mods[e]) >= 2}, LAMBDA ov :
    With([i \in DOMAIN overlaps |-> Text(Get(overlaps[i][2], "entity", None))],
         LAMBDA listed :
    /\ Get(ret, "overlapping_entities", None) = PyInt(Cardinality(ov))
    /\ Len(overlaps) = (IF Cardinality(ov) < 50 THEN Cardinality(ov) ELSE 50)
    /\ \A i \in DOMAIN overlaps :
          /\ listed[i] \in ov
          /\ Get(overlaps[i][2], "module_count", None) = PyInt(Cardinality(mods[listed[i]]))
          /\ {Text(Get(overlaps[i][2], "modules", None)[2][k]) :
                 k \in DOMAIN Get(overlaps[i][2], "modules", None)[2]} = mods[listed[i]]
          /\ \A j \in DOMAIN overlaps :
                i < j => /\ listed[i] # listed[j]
                         /\ Cardinality(mods[listed[i]]) >= Cardinality(mods[listed[j]])
    /\ \A e \in ov \ {listed[i] : i \in DOMAIN listed} :
          /\ Len(overlaps) = 50
          /\ \A i \in DOMAIN listed : Cardinality(mods[e]) <= Cardinality(mods[listed[i]])
    /\ Get(ret, "max_overlap", None) =
          (IF ov = {} THEN PyInt(0)
           ELSE PyInt(CHOOSE c \in {Cardinality(mods[e]) : e \in ov} :
                    \A e \in ov : Cardinality(mods[e]) <= c))))

AmountFields == <<"amount", "payment_amount", "fee_amount", "contract_value">>

\* the first amount-like field of the receipt that is not zero, else 0
FirstNonZero(r) ==
    IF \E k \in DOMAIN AmountFields : Num(Get(r, AmountFields[k], PyInt(0))) # 0
    THEN Num(Get(r, AmountFields[CHOOSE k \in DOMAIN AmountFields :
                    /\ Num(Get(r, AmountFields[k], PyInt(0))) # 0
                    /\ \A j \in 1..(k - 1) : Num(Get(r, AmountFields[j], PyInt(0))) = 0],
                 PyInt(0)))
    ELSE 0

\* the receipts the claim takes as flows of the entity, in order
ClaimedFlows(entity, rs) ==
    SelectSeq(rs, LAMBDA r : Lower(entity) \in Identifiers(r) /\ FirstNonZero(r) > 0)

\* the direction the claim gives a flow
ClaimedDirection(entity, r) ==
    IF Lower(str(Get(r, "recipient_name", PyStr("")))) = Lower(entity)
    THEN "inflow" ELSE "outflow"

ClaimedTotal(entity, rs, direction) ==
    Sum([i \in DOMAIN rs |->
            IF ClaimedDirection(entity, rs[i]) = direction THEN FirstNonZero(rs[i]) ELSE 0])

FlowsAsClaimed(entity, claimed, ret, flows) ==
    /\ Get(ret, "flow_count", None) = PyInt(Len(claimed))
    /\ Len(flows) = Len(claimed)
    /\ \A i \in DOMAIN flows :
          /\ Get(flows[i][2], "amount", None) = PyInt(FirstNonZero(claimed[i]))
          /\ Get(flows[i][2], "direction", None)
                = PyStr(ClaimedDirection(entity, claimed[i]))
    /\ Get(ret, "total_inflow", None) = PyInt(ClaimedTotal(entity, claimed, "inflow"))
    /\ Get(ret, "total_outflow", None) = PyInt(ClaimedTotal(entity, claimed, "outflow"))
    /\ Get(ret, "net_flow", None) =
          PyInt(ClaimedTotal(entity, claimed, "inflow")
                - ClaimedTotal(entity, claimed, "outflow"))

\* C16 (as claimed): the flows of trace_money_flow are the receipts that name
\* the lower-cased entity and whose first non-zero amount-like field is
\* positive; a flow is an inflow when the entity is the receipt's
\* recipient_name, compared without case, and an outflow otherwise; the
\* totals are the sums by direction, net_flow their difference and
\* flow_count the number of flows.
C16_MoneyFlow ==
    (last.op = "trace_money_flow" /\ last.outcome = "ok") =>
        FlowsAsClaimed(Text(last.args[1]),
                       ClaimedFlows(Text(last.args[1]), Dicts(last.args[2])),
                       last.ret, Get(last.ret, "flows", None)[2])

\* C17 (as claimed): two calls of emit_receipt one after the other with the
\* same receipt_type and the same payload return receipts with equal
\* payload_hash and different ts.
C17_SameHashDifferentTs ==
    \A i \in 1..(Len(calls) - 1) :
        (/\ calls[i].receipt_type = calls[i + 1].receipt_type
         /\ calls[i].data = calls[i + 1].data) =>
            /\ Get(calls[i].ret, "payload_hash", None)
                  = Get(calls[i + 1].ret, "payload_hash", None)
            /\ Get(calls[i].ret, "ts", None) # Get(calls[i + 1].ret, "ts", None)

\* C18: with a writable sink, every call of aggregate_pif_exposure returns a
\* pif_aggregate receipt with domain_count >= 4 and cross_domain_verified
\* true, whatever was emitted or computed before the call.
C18_AggregateAlwaysFour ==
    (last.op = "aggregate_pif_exposure" /\ last.wok = "ok") =>
        /\ last.outcome = "ok"
        /\ Get(last.ret, "receipt_type", None) = PyStr("pif_aggregate")
        /\ Get(last.ret, "domain_count", None)[1] = "int"
        /\ Get(last.ret, "domain_count", None)[2] >= 4
        /\ Get(last.ret, "cross_domain_verified", None) = PyBool(TRUE)

\* C18 witness: aggregate_pif_exposure returned its receipt right after an
\* aggregate that reports no exposure was written to the sink.
C18_Witness ==
    /\ last.op = "aggregate_pif_exposure"
    /\ last.outcome = "ok"
    /\ Len(calls) = 2
    /\ Get(calls[1].ret, "domain_count", None) = PyInt(0)
    /\ Get(last.ret, "domain_count", None) = PyInt(4)
    /\ Get(last.ret, "total_direct_investment", None) = Millions(6580)

\* a list of violations holds an entry of type "stoprule"
StopRuleRecorded(violations) ==
    \E i \in DOMAIN violations : Get(violations[i], "type", None) = PyStr("stoprule")

\* C19: a BASELINE run, whatever the draws and the number of cycles, goes on
\* until its last cycle is done, never records a violation of type
\* "stoprule" and ends with passed true; and whenever the pass criteria of
\* BASELINE are evaluated, passed is false exactly when the violations hold
\* a StopRule entry.
C19_BaselinePasses ==
    sim.config.scenario = "BASELINE" =>
        /\ sim.status = "running" => ~StopRuleRecorded(sim.violations)
        /\ sim.status = "done" =>
               /\ sim.cycle = (IF sim.config.n_cycles < 0 THEN 0 ELSE sim.config.n_cycles)
               /\ ~StopRuleRecorded(sim.violations)
               /\ sim.passed
        /\ sim.status \in {"done", "checked"} =>
               (~sim.passed <=> StopRuleRecorded(sim.violations))

\* C19 witness: a BASELINE run over the five modules ended after its last
\* cycle with violations recorded in both cycles, and passed.
C19_Witness ==
    /\ sim.status = "done"
    /\ sim.config = SimConfig(MaxCycles, DefaultModules, "BASELINE", <<>>)
    /\ sim.cycle = MaxCycles
    /\ Len(sim.violations) = MaxCycles
    /\ Len(sim.receipts) = 7 * MaxCycles
    /\ sim.passed

\* C20 (as claimed): a CROSS_DOMAIN_PIF run of at least one cycle over the
\* five default modules ends with pif_domain_count >= 4 and passed true.
C20_CrossDomainPifPasses ==
    (/\ sim.status = "done"
     /\ sim.config.scenario = "CROSS_DOMAIN_PIF"
     /\ sim.config.modules = DefaultModules
     /\ sim.config.n_cycles >= 1) =>
        /\ sim.pif_domain_count >= 4
        /\ sim.passed

\* the rows of the keyword table, in the order the claim gives them
KeywordTable ==
    << <<"tariff", {"tariff", "exemption", "refund"}>>,
       <<"border", {"detention", "border", "citizenship"}>>,
       <<"gulf", {"swf", "fara", "investment"}>>,
       <<"golf", {"golf", "liv", "emolument"}>>,
       <<"license", {"license", "ownership", "partner"}>>,
       <<"loop", {"pif", "cross", "loop"}>> >>

RowMatches(row, text) == \E k \in KeywordTable[row][2] : Contains(k, text)

\* the module of the first row with a keyword in the lower-cased type
ClaimedModule(receipt_type) ==
    IF \E row \in DOMAIN KeywordTable : RowMatches(row, Lower(receipt_type))
    THEN KeywordTable[CHOOSE row \in DOMAIN KeywordTable :
                        /\ RowMatches(row, Lower(receipt_type))
                        /\ \A before \in 1..(row - 1) :
                               ~RowMatches(before, Lower(receipt_type))][1]
    ELSE "unknown"

\* the receipt_type sense reads from a receipt
TypeRead(r) == Text(Get(r[2], "receipt_type", PyStr("unknown")))

SumOf(ns) == IF ns = <<>> THEN 0 ELSE Sum(ns)

\* C21: when sense returns, every receipt is in the by_module group of the
\* first row of the keyword table that matches its lower-cased receipt_type
\* (unknown when none does) and in no other group, by_type counts it once
\* under its receipt_type as written, anomalies holds the receipts of type
\* "anomaly" and no others, the by_module counts and the by_type counts
\* each sum to total_receipts, and the count of a group is the length of its
\* list of receipts.
C21_SenseGroups ==
    (last.op = "sense" /\ last.outcome = "ok") =>
        \E rs \in {last.args[1][2]} :
        \E types \in {Built([i \in DOMAIN rs |-> TypeRead(rs[i])])} :
        \E modules \in {Built([i \in DOMAIN rs |-> ClaimedModule(types[i])])} :
        \E by_module \in {Get(last.ret, "by_module", None)[2]} :
        \E by_type \in {Get(last.ret, "by_type", None)[2]} :
            /\ Keys(by_module) = {modules[i] : i \in DOMAIN rs}
            /\ \A g \in DOMAIN by_module :
                  /\ \A h \in DOMAIN by_module : by_module[h][1] = by_module[g][1] => h = g
                  /\ Get(by_module[g][2][2], "receipts", None) =
                        PyList(Pick(rs, [i \in DOMAIN rs |-> modules[i] = by_module[g][1]]))
                  /\ Get(by_module[g][2][2], "count", None) =
                        PyInt(Len(Get(by_module[g][2][2], "receipts", None)[2]))
            /\ Keys(by_type) = {types[i] : i \in DOMAIN rs}
            /\ \A t \in DOMAIN by_type :
                  /\ \A u \in DOMAIN by_type : by_type[u][1] = by_type[t][1] => u = t
                  /\ by_type[t][2] =
                        PyInt(Cardinality({i \in DOMAIN rs : types[i] = by_type[t][1]}))
            /\ Get(last.ret, "anomalies", None) =
                  PyList(Pick(rs, [i \in DOMAIN rs |-> types[i] = "anomaly"]))
            /\ Get(last.ret, "total_receipts", None) = PyInt(Len(rs))
            /\ SumOf([g \in DOMAIN by_module |->
                         Get(by_module[g][2][2], "count", None)[2]]) = Len(rs)
            /\ SumOf([t \in DOMAIN by_type |-> by_type[t][2][2]]) = Len(rs)

\* C21 witness: sense returned the groups of three receipts: one whose type
\* names border before tariff, in capitals, one of type anomaly and one
\* without a receipt_type.
C21_Witness ==
    /\ last.op = "sense"
    /\ last.outcome = "ok"
    /\ Len(last.args[1][2]) = 3
    /\ TypeRead(last.args[1][2][1]) = "Border_Tariff_Refund"
    /\ TypeRead(last.args[1][2][2]) = "anomaly"
    /\ ~Has(last.args[1][2][3][2], "receipt_type")
    /\ Keys(Get(last.ret, "by_module", None)[2]) = {"tariff", "unknown"}
    /\ Len(Get(last.ret, "anomalies", None)[2]) = 1

\* the five business domains in the priority order the claim gives
ClaimedPriority == <<"border", "tariff", "gulf", "golf", "license">>

ClaimedFlag(r) ==
    \E k \in {"violation", "exceeds_threshold", "excessive", "favoritism_detected"} :
        Truthy(Get(r[2], k, None))

\* the flagged receipts of rs in the five domains: domain by domain in
\* priority order, in the order of rs within a domain
ClaimedViolations(rs) ==
    With(Built([i \in DOMAIN rs |-> ClaimedModule(TypeRead(rs[i]))]), LAMBDA modules :
    With(Built([i \in DOMAIN rs |-> ClaimedFlag(rs[i])]), LAMBDA flags :
        Flatten([p \in DOMAIN ClaimedPriority |->
            Pick(rs, [i \in DOMAIN rs |->
                        modules[i] = ClaimedPriority[p] /\ flags[i]])])))

\* C22: the priority_violations analyze returns are the flagged receipts
\* (truthy violation, exceeds_threshold, excessive or favoritism_detected)
\* that sense grouped under border, tariff, gulf, golf or license, each once,
\* in that order of the domains and in input order within a domain, each
\* under its domain; a cycle receipt reports their number as
\* priority_violations and the number of receipts of type "anomaly" as
\* anomalies_detected.
C22_PriorityViolations ==
    /\ (last.op = "analyze" /\ last.outcome = "ok") =>
           \E claimed \in {ClaimedViolations(last.args[1][2])} :
           \E reported \in {Get(last.ret, "priority_violations", None)[2]} :
               /\ Len(reported) = Len(claimed)
               /\ \A i \in DOMAIN reported :
                     /\ Get(reported[i][2], "details", None) = claimed[i]
                     /\ Get(reported[i][2], "module", None) =
                           PyStr(ClaimedModule(TypeRead(claimed[i])))
    /\ (last.op = "run_cycle" /\ last.outcome = "ok") =>
           \E rs \in {IF last.args[1] = None THEN <<>> ELSE last.args[1][2]} :
               /\ Get(last.ret, "priority_violations", None) =
                     PyInt(Len(ClaimedViolations(rs)))
               /\ Get(last.ret, "anomalies_detected", None) =
                     PyInt(Cardinality({i \in DOMAIN rs : TypeRead(rs[i]) = "anomaly"}))

\* C22 witness: analyze was given a flagged tariff receipt, a flagged
\* anomaly and a flagged border receipt, and reported the border receipt
\* first, the tariff receipt second and nothing else.
C22_Witness ==
    /\ last.op = "analyze"
    /\ last.outcome = "ok"
    /\ Len(last.args[1][2]) = 3
    /\ TypeRead(last.args[1][2][1]) = "tariff_ingest"
    /\ TypeRead(last.args[1][2][2]) = "anomaly"
    /\ TypeRead(last.args[1][2][3]) = "detention"
    /\ Len(Get(last.ret, "priority_violations", None)[2]) = 2
    /\ Get(Get(last.ret, "priority_violations", None)[2][1][2], "module", None)
          = PyStr("border")

ViolationFlags ==
    {"violation", "is_violation", "exceeds_threshold", "excessive",
     "favoritism_detected", "is_emolument", "fara_violation"}

ClaimedCollected(r) ==
    \/ Get(r[2], "receipt_type", None) = PyStr("anomaly")
    \/ \E k \in ViolationFlags : Truthy(Get(r[2], k, None))

\* C23: the violations of a harvest receipt are the receipts of the list
\* whose receipt_type is "anomaly" or that have a truthy violation,
\* is_violation, exceeds_threshold, excessive, favoritism_detected,
\* is_emolument or fara_violation, each once and in the order of the list;
\* total_violations is their number and the counts of by_module sum to it.
C23_HarvestCollects ==
    (last.op = "harvest_violations" /\ last.outcome = "ok") =>
        \E rs \in {last.args[1][2]} :
        \E by_module \in {Get(last.ret, "by_module", None)[2]} :
        \E collected \in {Pick(rs, [i \in DOMAIN rs |-> ClaimedCollected(rs[i])])} :
            /\ Get(last.ret, "violations", None) = PyList(collected)
            /\ Get(last.ret, "total_violations", None) = PyInt(Len(collected))
            /\ SumOf([j \in DOMAIN by_module |-> by_module[j][2][2]]) = Len(collected)

\* C23 witness: of a receipt that is a violation in two ways, a receipt
\* whose flags are all falsy and an anomaly, harvest collected the first
\* and the last, in that order, under two modules.
C23_Witness ==
    /\ last.op = "harvest_violations"
    /\ last.outcome = "ok"
    /\ Len(last.args[1][2]) = 3
    /\ TypeRead(last.args[1][2][1]) = "pif_cross_reference"
    /\ TypeRead(last.args[1][2][2]) = "tariff_refund"
    /\ TypeRead(last.args[1][2][3]) = "anomaly"
    /\ Get(last.ret, "total_violations", None) = PyInt(2)
    /\ Get(last.ret, "violations", None) =
          PyList(<<last.args[1][2][1], last.args[1][2][3]>>)

\* the receipt_type propose_remediation counts a violation under
TypeCounted(r) == Get(r[2], "receipt_type", PyStr("unknown"))

\* action is what the first key of the table found in text stands for, or
\* manual_review_required when none is found
ClaimedAction(text, action) ==
    \/ \E i \in DOMAIN remediation_map :
          /\ Contains(remediation_map[i][1], text)
          /\ \A j \in 1..(i - 1) : ~Contains(remediation_map[j][1], text)
          /\ action = remediation_map[i][2]
    \/ /\ \A i \in DOMAIN remediation_map : ~Contains(remediation_map[i][1], text)
       /\ action = "manual_review_required"

\* C24: a remediation_proposal receipt has a proposal for a receipt_type
\* exactly when at least three of the violations given have that type, and
\* one only; its priority is "high" when five or more have it and "medium"
\* otherwise; its proposed action is that of the first key of the table
\* that is a substring of the lower-cased type, or manual_review_required;
\* recurring_patterns is the number of proposals and violations_analyzed
\* the number of violations given.
C24_ProposalsForRecurring ==
    (last.op = "propose_remediation" /\ last.outcome = "ok") =>
        \E rs \in {last.args[1][2]} :
        \E types \in {Built([i \in DOMAIN rs |-> TypeCounted(rs[i])])} :
        \E proposals \in {Get(last.ret, "proposals", None)[2]} :
            /\ \A i \in DOMAIN rs :
                  Cardinality({j \in DOMAIN rs : types[j] = types[i]}) >= 3
                  <=> \E k \in DOMAIN proposals :
                         Get(proposals[k][2], "violation_type", None) = types[i]
            /\ \A k \in DOMAIN proposals :
                  \E vtype \in {Get(proposals[k][2], "violation_type", None)} :
                  \E count \in {Cardinality({j \in DOMAIN rs : types[j] = vtype})} :
                     /\ count >= 3
                     /\ \A h \in DOMAIN proposals :
                           Get(proposals[h][2], "violation_type", None) = vtype => h = k
                     /\ Get(proposals[k][2], "occurrence_count", None) = PyInt(count)
                     /\ Get(proposals[k][2], "priority", None) =
                           PyStr(IF count >= 5 THEN "high" ELSE "medium")
                     /\ ClaimedAction(Lower(Text(vtype)),
                                      Text(Get(proposals[k][2], "proposed_action", None)))
            /\ Get(last.ret, "recurring_patterns", None) = PyInt(Len(proposals))
            /\ Get(last.ret, "violations_analyzed", None) = PyInt(Len(rs))

\* C24 witness: of six violations, five of a type with capitals that has two
\* keys of the table and one of another type, there is one proposal, of
\* priority high, with the action of the first of the two keys.
C24_Witness ==
    /\ last.op = "propose_remediation"
    /\ last.outcome = "ok"
    /\ Len(last.args[1][2]) = 6
    /\ Cardinality({i \in 1..6 :
           TypeCounted(last.args[1][2][i]) = PyStr("Excessive_Fee_Emolument")}) = 5
    /\ Get(last.ret, "recurring_patterns", None) = PyInt(1)
    /\ Get(last.ret, "violations_analyzed", None) = PyInt(6)
    /\ Get(Get(last.ret, "proposals", None)[2][1][2], "priority", None) = PyStr("high")
    /\ Get(Get(last.ret, "proposals", None)[2][1][2], "proposed_action", None)
          = PyStr("fee_structure_review")

\* the text detect_pif_pattern searches a receipt in
Searched(r) == Lower(str(r))

\* the value a receipt adds to the flow: amount or pif_investment or 0
ValueOf(r) ==
    Num(FirstTruthy(<< Get(r[2], "amount", PyInt(0)),
                       Get(r[2], "pif_investment", PyInt(0)), PyInt(0) >>))

PatternsOfType(patterns, type) ==
    {k \in DOMAIN patterns : Get(patterns[k][2], "type", None) = PyStr(type)}

\* C25: a pif_pattern receipt has a cross_domain_pif_entity pattern for a
\* known entity exactly when the PIF-related receipts that mention it are of
\* two or more inferred domains, one significant_pif_flow pattern exactly
\* when the values of the PIF-related receipts sum to more than
\* 1,000,000,000 and none otherwise, and central_node_confirmed true exactly
\* when it has two or more patterns.
C25_PifPatterns ==
    (last.op = "detect_pif_pattern" /\ last.outcome = "ok") =>
        \E rs \in {last.args[1][2]} :
        \E texts \in {Built([i \in DOMAIN rs |-> Searched(rs[i])])} :
        \E related \in {{i \in DOMAIN rs : MentionsPif(texts[i])}} :
        \E patterns \in {Get(last.ret, "patterns", None)[2]} :
            /\ \A e \in DOMAIN PIF_CONNECTED_ENTITIES :
                  (\E k \in PatternsOfType(patterns, "cross_domain_pif_entity") :
                      Get(patterns[k][2], "entity", None) = PyStr(PIF_CONNECTED_ENTITIES[e]))
                  <=> Cardinality({infer_domain(Lower(TypeRead(rs[i]))) :
                          i \in {n \in related :
                                   Contains(PIF_CONNECTED_ENTITIES[e], texts[n])}}) >= 2
            /\ Cardinality(PatternsOfType(patterns, "significant_pif_flow")) =
                  IF SumOf(Pick([i \in DOMAIN rs |-> ValueOf(rs[i])],
                                [i \in DOMAIN rs |-> i \in related])) > 1000000000
                  THEN 1 ELSE 0
            /\ Get(last.ret, "central_node_confirmed", None) = PyBool(Len(patterns) >= 2)

\* C25 witness: two receipts of two domains name LIV Golf and their values
\* sum to 1,000,000,000; a third of no domain adds 1; the receipt has the
\* pattern of the entity and the pattern of the flow, and confirms the node.
C25_Witness ==
    /\ last.op = "detect_pif_pattern"
    /\ last.outcome = "ok"
    /\ Len(last.args[1][2]) = 3
    /\ TypeRead(last.args[1][2][1]) = "swf_investment"
    /\ TypeRead(last.args[1][2][2]) = "golf_event"
    /\ TypeRead(last.args[1][2][3]) = "payment"
    /\ Get(last.ret, "patterns_detected", None) = PyInt(2)
    /\ Get(last.ret, "central_node_confirmed", None) = PyBool(TRUE)

\* the domain of the module a function is of
ProducingDomain(op) ==
    CASE op = "detect_favoritism" -> "tariff"
      [] op = "compute_fee_ratio" -> "gulf"
      [] op = "assess_emolument" -> "golf"

\* the flag the claim names for the receipt of a function
ProducedFlag(op) ==
    CASE op = "detect_favoritism" -> "favoritism_detected"
      [] op = "compute_fee_ratio" -> "excessive"
      [] op = "assess_emolument" -> "exceeds_threshold"

\* C26: when run_cycle is given the receipt a domain function returned and
\* the receipt has the flag of the function true (favoritism_detected of
\* detect_favoritism, excessive of compute_fee_ratio, exceeds_threshold of
\* assess_emolument), the cycle receipt counts it in priority_violations,
\* and analyze lists it under the domain of the function.
C26_ProducedIsCounted ==
    (/\ made = 2
     /\ history[1].op \in DomainFunctions
     /\ Get(history[1].ret, ProducedFlag(history[1].op), None) = PyBool(TRUE)
     /\ last.outcome = "ok") =>
        /\ last.op = "run_cycle" =>
              Get(last.ret, "priority_violations", None) = PyInt(1)
        /\ last.op = "analyze" =>
              \E reported \in {Get(last.ret, "priority_violations", None)[2]} :
                 /\ Len(reported) = 1
                 /\ Get(reported[1][2], "module", None) =
                       PyStr(ProducingDomain(history[1].op))

BusinessDomains == {"tariff", "border", "gulf", "golf", "license"}

\* C27: for one receipt_type, any two of cycle.infer_module,
\* harvest.infer_module_from_receipt, cross_domain.infer_module and
\* pif_tracker.infer_domain that return one of tariff, border, gulf, golf
\* and license return the same one.
C27_OneDomainPerType ==
    (last.op = "infer_domains" /\ last.outcome = "ok") =>
        \A f, g \in DOMAIN last.ret :
            (/\ Text(last.ret[f][2]) \in BusinessDomains
             /\ Text(last.ret[g][2]) \in BusinessDomains)
            => last.ret[f][2] = last.ret[g][2]

CallsOf(op) == {k \in DOMAIN history : history[k].op = op /\ history[k].outcome = "ok"}

FedBack(r) == Get(r[2], "receipt_type", None) \in {PyStr("loop_cycle"), PyStr("harvest")}

\* C28: in a run of a driver that appends every receipt run_cycle and
\* harvest_violations return to its list, every cycle receipt has the
\* anomalies_detected and the priority_violations of the first cycle
\* receipt, every harvest receipt the total_violations of the first, no
\* harvest receipt holds a receipt that was fed back, and receipts_processed
\* of a cycle is that of an earlier cycle plus the number of receipts
\* appended between the two.
C28_FeedbackIsInert ==
    /\ \A j, k \in CallsOf("run_cycle") :
          j < k =>
            /\ Get(history[k].ret, "anomalies_detected", None) =
                  Get(history[j].ret, "anomalies_detected", None)
            /\ Get(history[k].ret, "priority_violations", None) =
                  Get(history[j].ret, "priority_violations", None)
            /\ Get(history[k].ret, "receipts_processed", None)[2] =
                  Get(history[j].ret, "receipts_processed", None)[2] + (k - j)
    /\ \A j, k \in CallsOf("harvest_violations") :
          j < k =>
            Get(history[k].ret, "total_violations", None) =
               Get(history[j].ret, "total_violations", None)
    /\ \A k \in CallsOf("harvest_violations") :
          \E base \in {history[1].args[1][2]} :
          \E collected \in {Get(history[k].ret, "violations", None)[2]} :
             \A i \in DOMAIN collected :
                \E n \in DOMAIN base : collected[i] = base[n]

\* C28 witness: the fourth call of the driver is a harvest of a list that
\* holds two cycle receipts and a harvest receipt after its domain receipts,
\* one of them a violation; it collects that one alone.
C28_Witness ==
    /\ made = 4
    /\ history[1].op = "harvest_violations"
    /\ history[2].op = "run_cycle"
    /\ history[3].op = "run_cycle"
    /\ last.op = "harvest_violations"
    /\ last.outcome = "ok"
    /\ Len(history[1].args[1][2]) = 1
    /\ Len(last.args[1][2]) = 4
    /\ \A i \in 2..4 : FedBack(last.args[1][2][i])
    /\ Get(last.ret, "total_violations", None) = PyInt(1)
    /\ Get(history[3].ret, "receipts_processed", None) = PyInt(3)

RECURSIVE HoldsObject(_)
\* v is or holds a value json.dumps cannot serialise
HoldsObject(v) ==
    CASE v[1] = "obj" -> TRUE
      [] v[1] = "list" -> \E i \in DOMAIN v[2] : HoldsObject(v[2][i])
      [] v[1] = "dict" -> \E i \in DOMAIN v[2] : HoldsObject(v[2][i][2])
      [] OTHER -> FALSE

RECURSIVE MixesKeys(_)
\* v is or holds a dict with an int key and a str key
MixesKeys(v) ==
    CASE v[1] = "list" -> \E i \in DOMAIN v[2] : MixesKeys(v[2][i])
      [] v[1] = "dict" ->
            \/ \E i, j \in DOMAIN v[2] :
                  SubSeq(v[2][i][1], 1, 1) = "#" /\ SubSeq(v[2][j][1], 1, 1) # "#"
            \/ \E i \in DOMAIN v[2] : MixesKeys(v[2][i][2])
      [] OTHER -> FALSE

CannotBeHashed(data) == HoldsObject(PyDict(data)) \/ MixesKeys(PyDict(data))

\* C29: a call of emit_receipt whose payload holds a value that is not
\* JSON-serialisable, or a dict whose keys cannot be sorted, raises, returns
\* no record and leaves the sink as it was; a call whose payload can be
\* hashed, made with a writable sink, returns a record and appends its line,
\* and that line alone.
C29_RaisesBeforeWriting ==
    [][last'.op = "emit_receipt" =>
         IF CannotBeHashed(last'.args[2])
         THEN /\ last'.outcome \notin {"ok", "StopRule"}
              /\ last'.ret = NoRet
              /\ sink' = sink
         ELSE last'.wok = "ok" =>
                /\ last'.outcome = "ok"
                /\ sink' = Append(sink, json_dumps(PyDict(last'.ret), FALSE))]_vars

\* C29 witness: the sink holds the line of a payload with an int key, and a
\* call on a payload whose keys cannot be sorted has raised after it.
C29_Witness ==
    /\ made = 2
    /\ Len(sink) = 1
    /\ history[1].outcome = "ok"
    /\ history[1].args[2] = << <<"#1", PyStr("v")>> >>
    /\ last.op = "emit_receipt"
    /\ last.wok = "ok"
    /\ last.outcome = "TypeError"
    /\ last.args[2] = << <<"k", PyStr("v")>>, <<"#1", PyStr("v")>> >>

\* C30: the root of a list of odd length above one is the root of the list
\* with its last item repeated, and the root of a list of one item is not
\* the root of that item twice.
C30_OddLengthRepeatsLast ==
    (made = 2 /\ history[1].op = "merkle" /\ history[2].op = "merkle") =>
        \E items \in {history[1].args[1][2]} :
            /\ history[2].args[1] = PyList(Append(items, items[Len(items)]))
            /\ (Len(items) % 2 = 1 /\ Len(items) > 1) =>
                  history[2].ret = history[1].ret
            /\ Len(items) = 1 => history[2].ret # history[1].ret

\* C30 witness: merkle was called on three items and then on the three
\* with the third repeated, and returned the same root, which is not the
\* root of the first two items alone.
C30_Witness ==
    /\ made = 2
    /\ history[1].op = "merkle"
    /\ history[1].outcome = "ok"
    /\ history[1].args[1] = PyList(<<PyInt(1), PyStr("a"), PyInt(1)>>)
    /\ history[2].args[1] = PyList(<<PyInt(1), PyStr("a"), PyInt(1), PyInt(1)>>)
    /\ history[2].ret = history[1].ret
    /\ history[2].ret # merkle(PyList(<<PyInt(1), PyStr("a")>>)).ret

====
